---- MODULE Spec2Model ----
(***************************************************************************)
(* Model of the Prophet SDK core: the OAuth2 TokenManager                  *)
(* (src/prophet/sdk/auth.py) and the paginating FlowIterator               *)
(* (src/prophet/sdk/flows.py).                                             *)
(*                                                                         *)
(* Optional values (Python None / a value) are sequences of length 0 / 1.  *)
(* Times are integers on a small clock; tokens are strings.                *)
(***************************************************************************)
EXTENDS Integers, Sequences, FiniteSets, TLC

\* ------------------------------------------------------------------ bounds
MaxTime == 1
MaxExpiry == 2
MaxThreshold == 1
MaxPages == 2       \* pages the server scripts; later indices are empty and final
MaxLen == 2         \* records per page
MaxTake == 2        \* largest cap passed to take
MaxRequests == 2    \* first() and failing calls start only below this many requests
MaxCalls == 3       \* calls made on one Q after it is constructed

\* ------------------------------------------------------------ value space
None == <<>>
Some(v) == <<v>>

Tokens == {"t1", "t2"}
Thresholds == 0..MaxThreshold
ExpiryValues == 0..MaxExpiry

\* A JSON member: key present or not, value null (None) or a value.
JsonAbsent == [key |-> FALSE, val |-> None]
JsonNull == [key |-> TRUE, val |-> None]
JsonVal(v) == [key |-> TRUE, val |-> Some(v)]

NoField == JsonAbsent

\* Responses of the auth endpoint to POST /oauth2/token/1.0.
TransportFailure ==
    [kind |-> "transport", status |-> 0, error |-> NoField, code |-> NoField,
     access_token |-> NoField, expires_at |-> NoField]
Http401(e, c) ==
    [kind |-> "http", status |-> 401, error |-> e, code |-> c,
     access_token |-> NoField, expires_at |-> NoField]
HttpOther(s) ==
    [kind |-> "http", status |-> s, error |-> NoField, code |-> NoField,
     access_token |-> NoField, expires_at |-> NoField]
Http200(a, x) ==
    [kind |-> "http", status |-> 200, error |-> NoField, code |-> NoField,
     access_token |-> a, expires_at |-> x]
NoResponse ==
    [kind |-> "none", status |-> 0, error |-> NoField, code |-> NoField,
     access_token |-> NoField, expires_at |-> NoField]

OtherStatuses == {403, 500}
ErrorTexts == {JsonAbsent, JsonVal("bad_client")}
ErrorCodes == {JsonAbsent, JsonVal("E401")}
AccessTokenMembers == {JsonAbsent, JsonNull} \cup {JsonVal(t) : t \in Tokens}
ExpiresAtMembers == {JsonAbsent, JsonNull} \cup {JsonVal(x) : x \in ExpiryValues}

TokenResponses ==
    {TransportFailure}
    \cup {Http401(e, c) : e \in ErrorTexts, c \in ErrorCodes}
    \cup {HttpOther(s) : s \in OtherStatuses}
    \cup {Http200(a, x) : a \in AccessTokenMembers, x \in ExpiresAtMembers}

\* dict.get(key, default)
JsonGet(m, default) == IF m.key /\ m.val # None THEN m.val[1] ELSE default

\* ----------------------------------------------------------------- errors
NoErr == [type |-> "none", message |-> "", code |-> "", status_code |-> 0, cause |-> ""]
Err(t, m, c, s, cause) ==
    [type |-> t, message |-> m, code |-> c, status_code |-> s, cause |-> cause]

VARIABLES
    token,              \* TokenManager._token
    expires_at,         \* TokenManager._expires_at
    refresh_threshold,  \* TokenManager._refresh_threshold
    now,                \* time.time()
    last,               \* observation of the most recent TokenManager call
    prev,               \* summary of the call before it
    script,             \* the server's pages: length and more_data_available
    current_page,       \* FlowIterator._current_page
    page_num,           \* FlowIterator._page_num
    flow_index,         \* FlowIterator._flow_index
    total_yielded,      \* FlowIterator._total_yielded
    limit,              \* FlowIterator._limit
    exhausted,          \* FlowIterator._exhausted
    yielded,            \* records produced by flat iteration so far
    requests,           \* page indices of the page requests issued so far
    others,             \* kinds of event seen besides successful flat steps
    lastIt,             \* observation of the most recent iterator call
    io,                 \* a call seen from outside: its input and what it did
    timeout,            \* Prophet._timeout
    params,             \* FlowIterator._instances, _query, _start, _end, _sort,
                        \* _fields and _size
    builder             \* a Q: _parts, _pending_conjunction, _pending_field

tmVars == <<token, expires_at, refresh_threshold, now, last, prev>>
cursorVars == <<current_page, page_num, flow_index, total_yielded, limit, exhausted>>
itVars == <<script, current_page, page_num, flow_index, total_yielded, limit,
            exhausted, yielded, requests, others, lastIt>>
vars == <<token, expires_at, refresh_threshold, now, last, prev,
          script, current_page, page_num, flow_index, total_yielded, limit,
          exhausted, yielded, requests, others, lastIt, io, timeout, params, builder>>

\* ------------------------------------------------------------ TokenManager

\* is_expired with the boundary instant counted as still valid.
is_expired_strict(exp, t) ==
    IF exp = None THEN TRUE ELSE t > exp[1]

is_expired(exp, t) ==
    IF exp = None THEN TRUE ELSE t >= exp[1]

\* _needs_refresh with the comparison reversed.
needs_refresh_reversed(tok, exp, thr, t) ==
    IF tok = None \/ exp = None THEN TRUE ELSE t <= exp[1] - thr

\* _needs_refresh with the boundary instant excluded.
needs_refresh_strict(tok, exp, thr, t) ==
    IF tok = None \/ exp = None THEN TRUE ELSE t > exp[1] - thr

needs_refresh(tok, exp, thr, t) ==
    IF tok = None \/ exp = None THEN TRUE ELSE t >= exp[1] - thr

\* _fetch_token that forgets the cached token when the fetch fails.
fetch_token_clears_on_failure(tok, exp, resp) ==
    IF resp.kind = "transport"
    THEN [token |-> None, expires_at |-> None,
          err |-> Err("AuthenticationError", "Failed to connect to auth server",
                      "", 0, "RequestException")]
    ELSE IF resp.status = 401
    THEN [token |-> None, expires_at |-> None,
          err |-> Err("AuthenticationError",
                      JsonGet(resp.error, "Invalid credentials"),
                      JsonGet(resp.code, "invalid_credentials"), 0, "")]
    ELSE IF resp.status # 200
    THEN [token |-> None, expires_at |-> None,
          err |-> Err("AuthenticationError", "Token request failed with status",
                      "token_request_failed", resp.status, "")]
    ELSE IF ~resp.access_token.key
    THEN [token |-> tok, expires_at |-> exp,
          err |-> Err("KeyError", "access_token", "", 0, "")]
    ELSE IF ~resp.expires_at.key
    THEN [token |-> resp.access_token.val, expires_at |-> exp,
          err |-> Err("KeyError", "expires_at", "", 0, "")]
    ELSE IF resp.expires_at.val = None
    THEN [token |-> resp.access_token.val, expires_at |-> exp,
          err |-> Err("TypeError", "float", "", 0, "")]
    ELSE [token |-> resp.access_token.val, expires_at |-> resp.expires_at.val,
          err |-> NoErr]

\* _fetch_token without the 401 branch: a 401 takes the generic non-200 path.
fetch_token_no401(tok, exp, resp) ==
    IF resp.kind = "transport"
    THEN [token |-> tok, expires_at |-> exp,
          err |-> Err("AuthenticationError", "Failed to connect to auth server",
                      "", 0, "RequestException")]
    ELSE IF resp.status # 200
    THEN [token |-> tok, expires_at |-> exp,
          err |-> Err("AuthenticationError", "Token request failed with status",
                      "token_request_failed", resp.status, "")]
    ELSE IF ~resp.access_token.key
    THEN [token |-> tok, expires_at |-> exp,
          err |-> Err("KeyError", "access_token", "", 0, "")]
    ELSE IF ~resp.expires_at.key
    THEN [token |-> resp.access_token.val, expires_at |-> exp,
          err |-> Err("KeyError", "expires_at", "", 0, "")]
    ELSE IF resp.expires_at.val = None
    THEN [token |-> resp.access_token.val, expires_at |-> exp,
          err |-> Err("TypeError", "float", "", 0, "")]
    ELSE [token |-> resp.access_token.val, expires_at |-> resp.expires_at.val,
          err |-> NoErr]

\* _fetch_token: the state and error after one POST answered by resp.
fetch_token(tok, exp, resp) ==
    IF resp.kind = "transport"
    THEN [token |-> tok, expires_at |-> exp,
          err |-> Err("AuthenticationError", "Failed to connect to auth server",
                      "", 0, "RequestException")]
    ELSE IF resp.status = 401
    THEN [token |-> tok, expires_at |-> exp,
          err |-> Err("AuthenticationError",
                      JsonGet(resp.error, "Invalid credentials"),
                      JsonGet(resp.code, "invalid_credentials"), 0, "")]
    ELSE IF resp.status # 200
    THEN [token |-> tok, expires_at |-> exp,
          err |-> Err("AuthenticationError", "Token request failed with status",
                      "token_request_failed", resp.status, "")]
    ELSE IF ~resp.access_token.key
    THEN [token |-> tok, expires_at |-> exp,
          err |-> Err("KeyError", "access_token", "", 0, "")]
    ELSE IF ~resp.expires_at.key
    THEN [token |-> resp.access_token.val, expires_at |-> exp,
          err |-> Err("KeyError", "expires_at", "", 0, "")]
    ELSE IF resp.expires_at.val = None
    THEN [token |-> resp.access_token.val, expires_at |-> exp,
          err |-> Err("TypeError", "float", "", 0, "")]
    ELSE [token |-> resp.access_token.val, expires_at |-> resp.expires_at.val,
          err |-> NoErr]

\* The tail of get_token and refresh: assert self._token is not None; return it.
assert_and_return(f, n) ==
    IF f.err.type # "none"
    THEN [token |-> f.token, expires_at |-> f.expires_at, err |-> f.err,
          ret |-> None, fetches |-> n]
    ELSE IF f.token = None
    THEN [token |-> f.token, expires_at |-> f.expires_at,
          err |-> Err("AssertionError", "", "", 0, ""),
          ret |-> None, fetches |-> n]
    ELSE [token |-> f.token, expires_at |-> f.expires_at, err |-> NoErr,
          ret |-> f.token, fetches |-> n]

get_token(tok, exp, thr, t, resp) ==
    IF needs_refresh(tok, exp, thr, t)
    THEN assert_and_return(fetch_token(tok, exp, resp), 1)
    ELSE assert_and_return([token |-> tok, expires_at |-> exp, err |-> NoErr], 0)

\* refresh that fetches only when nothing is cached.
refresh_if_empty(tok, exp, resp) ==
    IF tok = None \/ exp = None
    THEN assert_and_return(fetch_token(tok, exp, resp), 1)
    ELSE assert_and_return([token |-> tok, expires_at |-> exp, err |-> NoErr], 0)

refresh(tok, exp, resp) ==
    assert_and_return(fetch_token(tok, exp, resp), 1)

\* clear that forgets the token but keeps the expiry.
clear_token_only(tok, exp) == [token |-> None, expires_at |-> exp]

clear(tok, exp) == [token |-> None, expires_at |-> None]

\* ---------------------------------------------------------- observations
\* What the caller of an operation sees, and what the auth server saw.
Obs(op, r, resp, b) ==
    [op |-> op, at |-> now, empty |-> (token = None /\ expires_at = None),
     fetches |-> r.fetches, err |-> r.err, ret |-> r.ret, retb |-> b,
     resp |-> IF r.fetches = 0 THEN NoResponse ELSE resp]

Summary(l) == [op |-> l.op, empty |-> l.empty, ok |-> (l.err.type = "none")]

NoCall == [fetches |-> 0, err |-> NoErr, ret |-> None]

InitTM ==
    /\ token = None
    /\ expires_at = None
    /\ refresh_threshold \in Thresholds
    /\ now = 0
    /\ last = [op |-> "init", at |-> 0, empty |-> TRUE, fetches |-> 0,
               err |-> NoErr, ret |-> None, retb |-> FALSE, resp |-> NoResponse]
    /\ prev = [op |-> "init", empty |-> TRUE, ok |-> TRUE]

\* Only a call that fetches consumes a server response.
ResponsesFor(need) == IF need THEN TokenResponses ELSE {NoResponse}

GetToken ==
    /\ \E resp \in ResponsesFor(needs_refresh(token, expires_at, refresh_threshold, now)) :
        LET r == get_token(token, expires_at, refresh_threshold, now, resp) IN
        /\ token' = r.token
        /\ expires_at' = r.expires_at
        /\ last' = Obs("get_token", r, resp, FALSE)
    /\ prev' = Summary(last)
    /\ UNCHANGED <<refresh_threshold, now>>
    /\ UNCHANGED <<itVars, io, timeout, params, builder>>

Refresh ==
    /\ \E resp \in TokenResponses :
        LET r == refresh(token, expires_at, resp) IN
        /\ token' = r.token
        /\ expires_at' = r.expires_at
        /\ last' = Obs("refresh", r, resp, FALSE)
    /\ prev' = Summary(last)
    /\ UNCHANGED <<refresh_threshold, now>>
    /\ UNCHANGED <<itVars, io, timeout, params, builder>>

IsExpired ==
    /\ last' = Obs("is_expired", NoCall, NoResponse, is_expired(expires_at, now))
    /\ prev' = Summary(last)
    /\ UNCHANGED <<token, expires_at, refresh_threshold, now>>
    /\ UNCHANGED <<itVars, io, timeout, params, builder>>

Clear ==
    /\ token' = clear(token, expires_at).token
    /\ expires_at' = clear(token, expires_at).expires_at
    /\ last' = Obs("clear", NoCall, NoResponse, FALSE)
    /\ prev' = Summary(last)
    /\ UNCHANGED <<refresh_threshold, now>>
    /\ UNCHANGED <<itVars, io, timeout, params, builder>>

\* The clock advances between calls.
Tick ==
    /\ now < MaxTime
    /\ now' = now + 1
    /\ UNCHANGED <<token, expires_at, refresh_threshold, last, prev>>
    /\ UNCHANGED <<itVars, io, timeout, params, builder>>

\* ------------------------------------------------------------ FlowIterator

\* The server: page p of the script, then empty final pages.
Flows(p, n) == [i \in 1..n |-> <<p, i>>]

ServerData(p) ==
    IF p \in DOMAIN script
    THEN [flows |-> Flows(p, script[p].len), found |-> 50 + p,
          more_data_available |-> script[p].more]
    ELSE [flows |-> <<>>, found |-> 50 + p, more_data_available |-> FALSE]

\* ------------------------------------------- responses to a page request
InstanceIds == {"i1", "i2"}
InstanceLists == {<<"i1">>, <<"i2">>, <<"i1", "i2">>, <<"i2", "i1">>}

\* One instance's part of a 200 body: each member present or not.
NoData == [flows |-> JsonAbsent, found |-> JsonAbsent,
           more_data_available |-> JsonAbsent]
Members(d) == [flows |-> JsonVal(d.flows), found |-> JsonVal(d.found),
               more_data_available |-> JsonVal(d.more_data_available)]

\* A keyed 200 body: for each instance id, whether the key is there and
\* what is stored under it.
NoBody == [i \in InstanceIds |-> [key |-> FALSE, data |-> NoData]]
Keyed(i, d) == [NoBody EXCEPT ![i] = [key |-> TRUE, data |-> d]]

\* An HTTP response to a page request.  A 401 body is {error?, code?}; a
\* 400 body has under "error" an object {message?, details?} or a string.
PageResp(st, e, c, eo, body) ==
    [status |-> st, error |-> e, code |-> c, error_obj |-> eo, body |-> body]
NoErrorObj == [key |-> FALSE, message |-> JsonAbsent, details |-> JsonAbsent]
ErrorObj(m, d) == [key |-> TRUE, message |-> m, details |-> d]
Page401(e, c) == PageResp(401, e, c, NoErrorObj, NoBody)
Page400(e, eo) == PageResp(400, e, JsonAbsent, eo, NoBody)
PageStatus(st) == PageResp(st, JsonAbsent, JsonAbsent, NoErrorObj, NoBody)
Page200(body) == PageResp(200, JsonAbsent, JsonAbsent, NoErrorObj, body)

\* FlowPage.from_response for one instance's part of the body.
from_response(data) ==
    [flows |-> JsonGet(data.flows, <<>>), found |-> JsonGet(data.found, 0),
     has_more |-> JsonGet(data.more_data_available, FALSE)]

\* _fetch_page that builds the page from the last instance id's part.
handle_response_last_instance(instances, resp) ==
    IF resp.status = 401
    THEN [page |-> None, details |-> None,
          err |-> Err("AuthenticationError",
                      JsonGet(resp.error, "Authentication failed"),
                      JsonGet(resp.code, ""), 0, "")]
    ELSE IF resp.status = 400
    THEN IF ~resp.error_obj.key /\ resp.error.key
         THEN [page |-> None, details |-> None,
               err |-> Err("AttributeError", "'str' object has no attribute 'get'",
                           "", 0, "")]
         ELSE [page |-> None, details |-> resp.error_obj.details.val,
               err |-> Err("APIError",
                           JsonGet(resp.error_obj.message, "Validation failed"),
                           "validation_error", 400, "")]
    ELSE IF resp.status # 200
    THEN [page |-> None, details |-> None,
          err |-> Err("APIError", "Search request failed with status", "",
                      resp.status, "")]
    ELSE LET part == resp.body[instances[Len(instances)]] IN
         [page |-> Some(from_response(IF part.key THEN part.data ELSE NoData)),
          details |-> None, err |-> NoErr]

\* _fetch_page, lines 162-193: the error raised for a response, or the page
\* built from the part stored under the first instance id.
handle_response(instances, resp) ==
    IF resp.status = 401
    THEN [page |-> None, details |-> None,
          err |-> Err("AuthenticationError",
                      JsonGet(resp.error, "Authentication failed"),
                      JsonGet(resp.code, ""), 0, "")]
    ELSE IF resp.status = 400
    THEN IF ~resp.error_obj.key /\ resp.error.key
         THEN [page |-> None, details |-> None,
               err |-> Err("AttributeError", "'str' object has no attribute 'get'",
                           "", 0, "")]
         ELSE [page |-> None, details |-> resp.error_obj.details.val,
               err |-> Err("APIError",
                           JsonGet(resp.error_obj.message, "Validation failed"),
                           "validation_error", 400, "")]
    ELSE IF resp.status # 200
    THEN [page |-> None, details |-> None,
          err |-> Err("APIError", "Search request failed with status", "",
                      resp.status, "")]
    ELSE LET part == resp.body[instances[1]] IN
         [page |-> Some(from_response(IF part.key THEN part.data ELSE NoData)),
          details |-> None, err |-> NoErr]

\* The iterator's instance list, and the response the scripted server gives
\* a request for page p under an outcome with a status.
Instances == <<"i1">>
Respond(p, out) ==
    IF out.status = 200 THEN Page200(Keyed(Instances[1], Members(ServerData(p))))
    ELSE IF out.status = 401 THEN Page401(JsonAbsent, JsonAbsent)
    ELSE IF out.status = 400 THEN Page400(JsonAbsent, NoErrorObj)
    ELSE PageStatus(out.status)

\* What Prophet._request gives one page request: the token could not be
\* obtained (nothing is sent), the transport failed, or a status came back.
Ok == [kind |-> "http", status |-> 200]
PageFailures ==
    {[kind |-> "token_error", status |-> 0], [kind |-> "conn", status |-> 0]}
    \cup {[kind |-> "http", status |-> st] : st \in {401, 400, 500}}

\* A call's outcomes: its fetch number `after` (from 0) fails with `out`.
NoFail == [after |-> -1, out |-> Ok]
Schedules == {NoFail} \cup {[after |-> k, out |-> o] : k \in 0..MaxPages, o \in PageFailures}
Schedules1 == {sc \in Schedules : sc.after <= 0}
OutcomeAt(sched, n) == IF sched.after = n THEN sched.out ELSE Ok

StopIteration == Err("StopIteration", "", "", 0, "")

\* _fetch_page(page) under outcome out.
fetch_page(p, out) ==
    IF out.kind = "token_error"
    THEN [sent |-> FALSE, page |-> None,
          err |-> Err("AuthenticationError", "", "", 0, "get_token")]
    ELSE IF out.kind = "conn"
    THEN [sent |-> TRUE, page |-> None,
          err |-> Err("ConnectionError", "Request failed", "", 0, "RequestException")]
    ELSE LET h == handle_response(Instances, Respond(p, out)) IN
         [sent |-> TRUE, page |-> h.page, err |-> h.err]

Sent(f, p) == IF f.sent THEN <<p>> ELSE <<>>

Cursor ==
    [current_page |-> current_page, page_num |-> page_num,
     flow_index |-> flow_index, total_yielded |-> total_yielded,
     limit |-> limit, exhausted |-> exhausted]

\* The result of a call: the cursor it leaves, the requests it issued, the
\* error it raised (if any) and the value it returned (if any).
Result(c, reqs, err, ret) == [cur |-> c, reqs |-> reqs, err |-> err, ret |-> ret]

\* take() that fetches the first page ahead of the iteration.
take_prefetches(c, n) ==
    Result([c EXCEPT !.limit = Some(n), !.page_num = 1,
                     !.current_page = Some(from_response(Members(ServerData(0))))],
           <<0>>, NoErr, None)

take(c, n) == Result([c EXCEPT !.limit = Some(n)], <<>>, NoErr, None)

\* first() that asks for the page the cursor is at.
first_at_page_num(c, sched) ==
    LET f == fetch_page(c.page_num, OutcomeAt(sched, 0)) IN
    Result(c, Sent(f, c.page_num), f.err, f.page)

first(c, sched) ==
    LET f == fetch_page(0, OutcomeAt(sched, 0)) IN
    Result(c, Sent(f, 0), f.err, f.page)

\* next_page() that sets _exhausted when the page says more is available.
next_page_inverts_exhausted(c, sched) ==
    IF c.exhausted
    THEN Result(c, <<>>, NoErr, None)
    ELSE LET f == fetch_page(c.page_num, OutcomeAt(sched, 0)) IN
         IF f.err.type # "none"
         THEN Result(c, Sent(f, c.page_num), f.err, None)
         ELSE Result([c EXCEPT !.page_num = @ + 1,
                               !.exhausted = f.page[1].has_more],
                     <<c.page_num>>, NoErr, f.page)

\* next_page() without the test of _exhausted.
next_page_ignores_exhausted(c, sched) ==
    LET f == fetch_page(c.page_num, OutcomeAt(sched, 0)) IN
    IF f.err.type # "none"
    THEN Result(c, Sent(f, c.page_num), f.err, None)
    ELSE Result([c EXCEPT !.page_num = @ + 1,
                          !.exhausted = ~f.page[1].has_more],
                <<c.page_num>>, NoErr, f.page)

\* next_page() that advances _page_num before it fetches.
next_page_counts_failed(c, sched) ==
    IF c.exhausted
    THEN Result(c, <<>>, NoErr, None)
    ELSE LET f == fetch_page(c.page_num, OutcomeAt(sched, 0)) IN
         IF f.err.type # "none"
         THEN Result([c EXCEPT !.page_num = @ + 1], Sent(f, c.page_num),
                     f.err, None)
         ELSE Result([c EXCEPT !.page_num = @ + 1,
                               !.exhausted = ~f.page[1].has_more],
                     <<c.page_num>>, NoErr, f.page)

next_page(c, sched) ==
    IF c.exhausted
    THEN Result(c, <<>>, NoErr, None)
    ELSE LET f == fetch_page(c.page_num, OutcomeAt(sched, 0)) IN
         IF f.err.type # "none"
         THEN Result(c, Sent(f, c.page_num), f.err, None)
         ELSE Result([c EXCEPT !.page_num = @ + 1,
                               !.exhausted = ~f.page[1].has_more],
                     <<c.page_num>>, NoErr, f.page)

\* The loop of __next__ without the reset of _flow_index on a new page.
RECURSIVE next_loop_keeps_flow_index(_, _, _, _)
next_loop_keeps_flow_index(c, reqs, sched, n) ==
    IF c.flow_index >= Len(c.current_page[1].flows)
    THEN IF ~c.current_page[1].has_more
         THEN Result(c, reqs, StopIteration, None)
         ELSE LET f == fetch_page(c.page_num, OutcomeAt(sched, n)) IN
              IF f.err.type # "none"
              THEN Result(c, reqs \o Sent(f, c.page_num), f.err, None)
              ELSE next_loop_keeps_flow_index(
                       [c EXCEPT !.current_page = f.page, !.page_num = @ + 1],
                       Append(reqs, c.page_num), sched, n + 1)
    ELSE Result([c EXCEPT !.flow_index = @ + 1, !.total_yielded = @ + 1],
                reqs, NoErr, Some(c.current_page[1].flows[c.flow_index + 1]))

\* The loop of __next__ ending the sequence at an empty page, whatever its
\* more-available flag says.
RECURSIVE next_loop_ends_at_empty_page(_, _, _, _)
next_loop_ends_at_empty_page(c, reqs, sched, n) ==
    IF c.flow_index >= Len(c.current_page[1].flows)
    THEN IF ~c.current_page[1].has_more \/ c.current_page[1].flows = <<>>
         THEN Result(c, reqs, StopIteration, None)
         ELSE LET f == fetch_page(c.page_num, OutcomeAt(sched, n)) IN
              IF f.err.type # "none"
              THEN Result(c, reqs \o Sent(f, c.page_num), f.err, None)
              ELSE next_loop_ends_at_empty_page(
                       [c EXCEPT !.current_page = f.page, !.page_num = @ + 1,
                                 !.flow_index = 0],
                       Append(reqs, c.page_num), sched, n + 1)
    ELSE Result([c EXCEPT !.flow_index = @ + 1, !.total_yielded = @ + 1],
                reqs, NoErr, Some(c.current_page[1].flows[c.flow_index + 1]))

\* __next__, lines 120-132: skip to a page that has a record at flow_index,
\* then return it.  n counts the fetches this call has already made.
RECURSIVE next_loop(_, _, _, _)
next_loop(c, reqs, sched, n) ==
    IF c.flow_index >= Len(c.current_page[1].flows)
    THEN IF ~c.current_page[1].has_more
         THEN Result(c, reqs, StopIteration, None)
         ELSE LET f == fetch_page(c.page_num, OutcomeAt(sched, n)) IN
              IF f.err.type # "none"
              THEN Result(c, reqs \o Sent(f, c.page_num), f.err, None)
              ELSE next_loop([c EXCEPT !.current_page = f.page,
                                       !.page_num = @ + 1,
                                       !.flow_index = 0],
                             Append(reqs, c.page_num), sched, n + 1)
    ELSE Result([c EXCEPT !.flow_index = @ + 1, !.total_yielded = @ + 1],
                reqs, NoErr, Some(c.current_page[1].flows[c.flow_index + 1]))

\* __next__ that leaves _page_num at 0 after fetching the first page.
next_keeps_page_num(c, sched) ==
    IF c.limit # None /\ c.total_yielded >= c.limit[1]
    THEN Result(c, <<>>, StopIteration, None)
    ELSE IF c.current_page = None
    THEN LET f == fetch_page(0, OutcomeAt(sched, 0)) IN
         IF f.err.type # "none"
         THEN Result(c, Sent(f, 0), f.err, None)
         ELSE next_loop([c EXCEPT !.current_page = f.page], <<0>>, sched, 1)
    ELSE next_loop(c, <<>>, sched, 0)

\* __next__ that stops only once more than the limit has been yielded.
next_limit_strict(c, sched) ==
    IF c.limit # None /\ c.total_yielded > c.limit[1]
    THEN Result(c, <<>>, StopIteration, None)
    ELSE IF c.current_page = None
    THEN LET f == fetch_page(0, OutcomeAt(sched, 0)) IN
         IF f.err.type # "none"
         THEN Result(c, Sent(f, 0), f.err, None)
         ELSE next_loop([c EXCEPT !.current_page = f.page, !.page_num = 1],
                        <<0>>, sched, 1)
    ELSE next_loop(c, <<>>, sched, 0)

\* __next__ that tests the limit after it has made sure a page is buffered.
next_limit_after_fetch(c, sched) ==
    LET f == fetch_page(0, OutcomeAt(sched, 0))
        stop(d, reqs) ==
            IF d.limit # None /\ d.total_yielded >= d.limit[1]
            THEN Result(d, reqs, StopIteration, None)
            ELSE next_loop(d, reqs, sched, Len(reqs))
    IN  IF c.current_page # None THEN stop(c, <<>>)
        ELSE IF f.err.type # "none" THEN Result(c, Sent(f, 0), f.err, None)
        ELSE stop([c EXCEPT !.current_page = f.page, !.page_num = 1], <<0>>)

\* __next__
next(c, sched) ==
    IF c.limit # None /\ c.total_yielded >= c.limit[1]
    THEN Result(c, <<>>, StopIteration, None)
    ELSE IF c.current_page = None
    THEN LET f == fetch_page(0, OutcomeAt(sched, 0)) IN
         IF f.err.type # "none"
         THEN Result(c, Sent(f, 0), f.err, None)
         ELSE next_loop([c EXCEPT !.current_page = f.page, !.page_num = 1],
                        <<0>>, sched, 1)
    ELSE next_loop(c, <<>>, sched, 0)

\* collect(), list(self): __next__ until it raises; StopIteration ends the
\* list, any other error leaves collect.  The schedule counts the fetches of
\* the whole call.
RECURSIVE collect_loop(_, _, _, _)
collect_loop(c, sched, acc, reqs) ==
    LET r == next(c, sched) IN
    IF r.err.type = "StopIteration"
    THEN Result(r.cur, reqs \o r.reqs, NoErr, Some(acc))
    ELSE IF r.err.type # "none"
    THEN Result(r.cur, reqs \o r.reqs, r.err, None)
    ELSE collect_loop(r.cur, [sched EXCEPT !.after = @ - Len(r.reqs)],
                      Append(acc, r.ret[1]), reqs \o r.reqs)

\* collect that starts the iteration over before draining it.
collect_from_start(c, sched) ==
    collect_loop([c EXCEPT !.current_page = None, !.flow_index = 0,
                           !.total_yielded = 0],
                 sched, <<>>, <<>>)

collect(c, sched) == collect_loop(c, sched, <<>>, <<>>)

\* total_found read off _page_num instead of the buffered page.
total_found_by_page_num(c) ==
    IF c.page_num = 0 THEN None
    ELSE Some(from_response(Members(ServerData(c.page_num - 1))).found)

\* total_found (property)
total_found(c) ==
    IF c.current_page = None THEN None ELSE Some(c.current_page[1].found)

\* ------------------------------------------------- iterator observations
Scripts == [0..(MaxPages - 1) -> [len : 0..MaxLen, more : BOOLEAN]]

\* What a call leaves for the call after it to be told by: a flat request
\* that ended the sequence, or another call.
Before(l) ==
    IF l.op = "next" /\ l.err.type = "StopIteration" THEN "end" ELSE "other"

\* tokens: the get_token calls this call made through Prophet._request (one
\* per page fetch it started).
ObsIt(op, r) ==
    [op |-> op, reqs |-> r.reqs, err |-> r.err, ret |-> r.ret,
     before |-> Before(lastIt),
     tokens |-> Len(r.reqs) + (IF r.err.cause = "get_token" THEN 1 ELSE 0)]

InitIt ==
    /\ current_page = None
    /\ page_num = 0
    /\ flow_index = 0
    /\ total_yielded = 0
    /\ limit = None
    /\ exhausted = FALSE
    /\ yielded = <<>>
    /\ requests = <<>>
    /\ others = {}
    /\ lastIt = [op |-> "init", reqs |-> <<>>, err |-> NoErr, ret |-> None,
                 before |-> "other", tokens |-> 0]

Apply(op, r) ==
    /\ current_page' = r.cur.current_page
    /\ page_num' = r.cur.page_num
    /\ flow_index' = r.cur.flow_index
    /\ total_yielded' = r.cur.total_yielded
    /\ limit' = r.cur.limit
    /\ exhausted' = r.cur.exhausted
    /\ lastIt' = ObsIt(op, r)
    /\ UNCHANGED script
    /\ UNCHANGED <<tmVars, io, timeout, params, builder>>

Failed(r) == r.err.type \notin {"none", "StopIteration"}

\* The histories of a run: the requests it sent and the calls it has seen.
Record(r, flags) ==
    /\ requests' = requests \o r.reqs
    /\ others' = others \cup flags

\* Calls that can repeat without end (first(), failed requests) are bounded.
Allowed(sched) == sched = NoFail \/ Len(requests) < MaxRequests
Flags(op, r) == IF Failed(r) THEN {op, "failed"} ELSE {op}

\* A take() made once records are being consumed is told apart.
TakeFlag(c) ==
    IF c.current_page = None /\ c.total_yielded = 0 THEN "take" ELSE "take_late"

Take ==
    \E n \in 0..MaxTake :
        LET r == take(Cursor, n) IN
        /\ Apply("take", r)
        /\ Record(r, {TakeFlag(Cursor)})
        /\ UNCHANGED yielded

First ==
    /\ Len(requests) < MaxRequests
    /\ \E sched \in Schedules1 :
        LET r == first(Cursor, sched) IN
        /\ Apply("first", r)
        /\ Record(r, Flags("first", r))
        /\ UNCHANGED yielded

NextPage ==
    \E sched \in Schedules1 :
        LET r == next_page(Cursor, sched) IN
        /\ Allowed(sched)
        /\ Apply("next_page", r)
        /\ Record(r, Flags("next_page", r))
        /\ UNCHANGED yielded

\* One __next__ call whose fetches are answered as sched says.
FlatStep(sched) ==
    LET r == next(Cursor, sched) IN
    /\ Apply("next", r)
    /\ Record(r, IF Failed(r) THEN {"failed"} ELSE {})
    /\ yielded' = IF r.ret = None THEN yielded ELSE Append(yielded, r.ret[1])

FlatNext == \E sched \in Schedules : Allowed(sched) /\ FlatStep(sched)

\* __next__ against a server that answers every page request with its page.
FlatNextOk == FlatStep(NoFail)

\* The same calls with the histories left alone: the cursor and the
\* observation of the call are the whole state, and no call is bounded.
Unrecorded == UNCHANGED <<yielded, requests, others>>

FirstCall(sched) == Apply("first", first(Cursor, sched)) /\ Unrecorded
NextPageCall(sched) == Apply("next_page", next_page(Cursor, sched)) /\ Unrecorded
NextCall(sched) == Apply("next", next(Cursor, sched)) /\ Unrecorded

TakeOp == \E n \in 0..MaxTake : Apply("take", take(Cursor, n)) /\ Unrecorded

\* collect() with every page request answered, or one of them lost.
Lost == [kind |-> "conn", status |-> 0]
CollectSchedules == {sc \in Schedules : sc.out \in {Ok, Lost}}
CollectOp == \E sched \in CollectSchedules : Apply("collect", collect(Cursor, sched)) /\ Unrecorded

\* Calls whose page requests are all answered with the page.
FirstOk == FirstCall(NoFail)
NextPageOk == NextPageCall(NoFail)
NextOk == NextCall(NoFail)

\* Calls under every outcome of their page requests.
FirstOp == \E sched \in Schedules1 : FirstCall(sched)
NextPageOp == \E sched \in Schedules1 : NextPageCall(sched)
NextOp == \E sched \in Schedules : NextCall(sched)

\* ------------------------------------------------------- Prophet._request
DefaultTimeout == 30    \* Prophet.__init__, timeout: float = 30.0
AuthTimeout == 30       \* TokenManager._fetch_token, timeout=30

\* Header values.
Bearer(t) == [scheme |-> "Bearer", credentials |-> t]
Headers(a, c, x) == [Authorization |-> a, ContentType |-> c, XTrace |-> x]
NoHeaders == Headers(JsonAbsent, JsonAbsent, JsonAbsent)

\* The keyword arguments of a call of _request besides json: headers and
\* timeout, each given or not.  The callers in the SDK give neither.
Kwargs(h, t) == [headers |-> h, timeout |-> t]
NoKwargs == Kwargs(NoHeaders, JsonAbsent)

\* The requests the SDK makes through _request.
Req(m, path, page) == [method |-> m, path |-> path, page |-> page]
Search(page) == Req("POST", "/search/records/1.0", page)
DeploymentReqs == {Req(m, "/deployments/1.0", -1) : m \in {"GET", "POST", "DELETE"}}

ConnectionFailed == Err("ConnectionError", "Request failed", "", 0, "RequestException")

\* _request with get_token called twice, the second token ignored.
request_asks_twice(tok, exp, thr, t, cfg, tokresp, kw, req, transport_ok) ==
    LET g == get_token(tok, exp, thr, t, tokresp)
        g2 == get_token(g.token, g.expires_at, thr, t, tokresp)
        msg == [method |-> req.method, path |-> req.path, page |-> req.page,
                headers |-> [kw.headers EXCEPT
                                !.Authorization = JsonVal(Bearer(g.ret[1])),
                                !.ContentType = JsonVal("application/json")],
                timeout |-> IF kw.timeout.key THEN kw.timeout.val[1] ELSE cfg]
    IN  IF g.err.type # "none"
        THEN [token |-> g.token, expires_at |-> g.expires_at,
              token_calls |-> 1, token_requests |-> g.fetches,
              got |-> None, sent |-> <<>>, err |-> g.err]
        ELSE [token |-> g2.token, expires_at |-> g2.expires_at,
              token_calls |-> 2, token_requests |-> g.fetches + g2.fetches,
              got |-> g.ret, sent |-> <<msg>>,
              err |-> IF transport_ok THEN NoErr ELSE ConnectionFailed]

\* _request that keeps the headers of the caller where they are given.
request_keeps_caller_headers(tok, exp, thr, t, cfg, tokresp, kw, req, transport_ok) ==
    LET g == get_token(tok, exp, thr, t, tokresp)
        msg == [method |-> req.method, path |-> req.path, page |-> req.page,
                headers |-> [kw.headers EXCEPT
                                !.Authorization =
                                    IF @.key THEN @ ELSE JsonVal(Bearer(g.ret[1])),
                                !.ContentType =
                                    IF @.key THEN @ ELSE JsonVal("application/json")],
                timeout |-> IF kw.timeout.key THEN kw.timeout.val[1] ELSE cfg]
    IN  IF g.err.type # "none"
        THEN [token |-> g.token, expires_at |-> g.expires_at,
              token_calls |-> 1, token_requests |-> g.fetches,
              got |-> None, sent |-> <<>>, err |-> g.err]
        ELSE [token |-> g.token, expires_at |-> g.expires_at,
              token_calls |-> 1, token_requests |-> g.fetches,
              got |-> g.ret, sent |-> <<msg>>,
              err |-> IF transport_ok THEN NoErr ELSE ConnectionFailed]

\* Prophet._request: the token state it leaves, the get_token calls and the
\* token requests it made, the token it got, the request it sent (if any)
\* and the error it raised (if any).
request(tok, exp, thr, t, cfg, tokresp, kw, req, transport_ok) ==
    LET g == get_token(tok, exp, thr, t, tokresp)
        msg == [method |-> req.method, path |-> req.path, page |-> req.page,
                headers |-> [kw.headers EXCEPT
                                !.Authorization = JsonVal(Bearer(g.ret[1])),
                                !.ContentType = JsonVal("application/json")],
                timeout |-> IF kw.timeout.key THEN kw.timeout.val[1] ELSE cfg]
    IN  IF g.err.type # "none"
        THEN [token |-> g.token, expires_at |-> g.expires_at,
              token_calls |-> 1, token_requests |-> g.fetches,
              got |-> None, sent |-> <<>>, err |-> g.err]
        ELSE [token |-> g.token, expires_at |-> g.expires_at,
              token_calls |-> 1, token_requests |-> g.fetches,
              got |-> g.ret, sent |-> <<msg>>,
              err |-> IF transport_ok THEN NoErr ELSE ConnectionFailed]

\* A call that went through no _request.
NoRequest(tok, exp) ==
    [token |-> tok, expires_at |-> exp, token_calls |-> 0,
     token_requests |-> 0, got |-> None, sent |-> <<>>, err |-> NoErr]

\* _fetch_page that drops the cached token when the search answers 401.
fetch_page_request_clears_on_401(tok, exp, thr, t, cfg, tokresp, page, transport_ok, resp) ==
    LET r == request(tok, exp, thr, t, cfg, tokresp, NoKwargs, Search(page),
                     transport_ok)
        h == handle_response(Instances, resp)
    IN  IF r.err.type # "none"
        THEN [req |-> r, page |-> None, err |-> r.err]
        ELSE IF resp.status = 401
        THEN [req |-> [r EXCEPT !.token = None, !.expires_at = None],
              page |-> h.page, err |-> h.err]
        ELSE [req |-> r, page |-> h.page, err |-> h.err]

\* _fetch_page that calls _request once more when the first call raised.
fetch_page_request_retries(tok, exp, thr, t, cfg, tokresp, page, transport_ok, resp) ==
    LET r == request(tok, exp, thr, t, cfg, tokresp, NoKwargs, Search(page),
                     transport_ok)
        r2 == request(r.token, r.expires_at, thr, t, cfg, tokresp, NoKwargs,
                      Search(page), transport_ok)
        both == [r2 EXCEPT !.token_calls = r.token_calls + r2.token_calls,
                           !.token_requests = r.token_requests + r2.token_requests,
                           !.sent = r.sent \o r2.sent]
        h == handle_response(Instances, resp)
    IN  IF r.err.type = "none"
        THEN [req |-> r, page |-> h.page, err |-> h.err]
        ELSE IF r2.err.type # "none"
        THEN [req |-> both, page |-> None, err |-> r2.err]
        ELSE [req |-> both, page |-> h.page, err |-> h.err]

\* _fetch_page(page) over _request: the error of _request, or what the
\* response is handled to.
fetch_page_request(tok, exp, thr, t, cfg, tokresp, page, transport_ok, resp) ==
    LET r == request(tok, exp, thr, t, cfg, tokresp, NoKwargs, Search(page),
                     transport_ok)
        h == handle_response(Instances, resp)
    IN  IF r.err.type # "none"
        THEN [req |-> r, page |-> None, err |-> r.err]
        ELSE [req |-> r, page |-> h.page, err |-> h.err]

\* What a call through the client is seen to do: the get_token calls and
\* token requests it made (each token request with its timeout), the token
\* it got, the requests it sent and the error it raised.
CallSeen(fn, kw, r, err) ==
    [fn |-> fn, kw |-> kw, token_calls |-> r.token_calls,
     token_requests |-> r.token_requests,
     auth_timeouts |-> [i \in 1..r.token_requests |-> AuthTimeout],
     got |-> r.got, sent |-> r.sent, err |-> err]

\* A direct call of get_token or refresh.
TokenCall(g) ==
    [token |-> g.token, expires_at |-> g.expires_at, token_calls |-> 1,
     token_requests |-> g.fetches, got |-> g.ret, sent |-> <<>>, err |-> g.err]

Timeouts == {5, DefaultTimeout}

\* The answers of the auth server the client is run against.
TokenReplies ==
    {TransportFailure, Http401(JsonAbsent, JsonAbsent), HttpOther(500),
     Http200(JsonNull, JsonVal(1))}
    \cup {Http200(JsonVal(t), JsonVal(x)) : t \in Tokens, x \in ExpiryValues}
RepliesFor(need) == IF need THEN TokenReplies ELSE {NoResponse}
NeedsToken == needs_refresh(token, expires_at, refresh_threshold, now)

KwargsGiven ==
    {Kwargs(Headers(a, c, JsonVal("1")), t) :
        a \in {JsonAbsent, JsonVal([scheme |-> "Basic", credentials |-> "t2"])},
        c \in {JsonAbsent, JsonVal("text/plain")},
        t \in {JsonAbsent, JsonVal(5)}}
\* The calls of _request: those of the SDK, and a search with headers and
\* timeout given.
RequestCalls ==
    {[kw |-> NoKwargs, req |-> r] : r \in DeploymentReqs \cup {Search(0)}}
    \cup {[kw |-> k, req |-> Search(0)] : k \in KwargsGiven}
PageStatuses == {[kind |-> "http", status |-> st] : st \in {200, 401, 500}}

\* No call is in progress: the last one has returned and its result is used.
Idle == [fn |-> "none"]

ClientFrame == UNCHANGED <<refresh_threshold, now, last, prev, timeout, params, builder,
                           script,
                           current_page, flow_index, total_yielded, limit,
                           yielded, requests, others, lastIt>>

ClientGetToken ==
    /\ io = Idle
    /\ \E tokresp \in RepliesFor(NeedsToken) :
        LET r == TokenCall(get_token(token, expires_at, refresh_threshold,
                                     now, tokresp)) IN
        /\ token' = r.token
        /\ expires_at' = r.expires_at
        /\ io' = CallSeen("get_token", NoKwargs, r, r.err)
    /\ UNCHANGED <<page_num, exhausted>>
    /\ ClientFrame

ClientRefresh ==
    /\ io = Idle
    /\ \E tokresp \in TokenReplies :
        LET r == TokenCall(refresh(token, expires_at, tokresp)) IN
        /\ token' = r.token
        /\ expires_at' = r.expires_at
        /\ io' = CallSeen("refresh", NoKwargs, r, r.err)
    /\ UNCHANGED <<page_num, exhausted>>
    /\ ClientFrame

\* _request as the deployments API and the search call it, and with headers
\* and timeout given by the caller.
ClientRequest ==
    /\ io = Idle
    /\ \E tokresp \in RepliesFor(NeedsToken), call \in RequestCalls,
          transport_ok \in BOOLEAN :
        LET r == request(token, expires_at, refresh_threshold, now, timeout,
                         tokresp, call.kw, call.req, transport_ok) IN
        /\ token' = r.token
        /\ expires_at' = r.expires_at
        /\ io' = CallSeen("_request", call.kw, r, r.err)
    /\ UNCHANGED <<page_num, exhausted>>
    /\ ClientFrame

\* first() over _request.
ClientFirst ==
    /\ io = Idle
    /\ \E tokresp \in RepliesFor(NeedsToken),
          transport_ok \in BOOLEAN, out \in PageStatuses :
        LET f == fetch_page_request(token, expires_at, refresh_threshold, now,
                                    timeout, tokresp, 0, transport_ok,
                                    Respond(0, out)) IN
        /\ token' = f.req.token
        /\ expires_at' = f.req.expires_at
        /\ io' = CallSeen("first", NoKwargs, f.req, f.err)
    /\ UNCHANGED <<page_num, exhausted>>
    /\ ClientFrame

\* next_page() over _request.
ClientNextPage ==
    /\ io = Idle
    /\ IF exhausted
       THEN /\ io' = CallSeen("next_page", NoKwargs,
                              NoRequest(token, expires_at), NoErr)
            /\ UNCHANGED <<token, expires_at, page_num, exhausted>>
       ELSE \E tokresp \in RepliesFor(NeedsToken),
               transport_ok \in BOOLEAN, out \in PageStatuses :
            LET f == fetch_page_request(token, expires_at, refresh_threshold,
                                        now, timeout, tokresp, page_num,
                                        transport_ok, Respond(page_num, out)) IN
            /\ token' = f.req.token
            /\ expires_at' = f.req.expires_at
            /\ io' = CallSeen("next_page", NoKwargs, f.req, f.err)
            /\ page_num' = IF f.err.type = "none" THEN page_num + 1 ELSE page_num
            /\ exhausted' = IF f.err.type = "none" THEN ~f.page[1].has_more
                            ELSE exhausted
    /\ ClientFrame

\* ------------------------------------------------------- DeploymentsAPI
\* `not value`: None and "" are both missing.
Missing(a) == a = None \/ a[1] = ""
Required(name) == Err("ValidationError", name \o " is required", "", 0, "")

\* _handle_errors, for a response whose body has no "error" member.
handle_errors(status) ==
    IF status = 401 THEN Err("AuthenticationError", "Authentication failed", "", 0, "")
    ELSE IF status = 400 THEN Err("ValidationError", "Validation failed", "", 0, "")
    ELSE IF status = 403 THEN Err("APIError", "Unauthorized", "authorization_error", 403, "")
    ELSE IF status = 404 THEN Err("APIError", "Not found", "not_found", 404, "")
    ELSE IF status \notin {200, 201}
    THEN Err("APIError", "Request failed with status", "", status, "")
    ELSE NoErr

\* A deployment call once its arguments are accepted: _request, then
\* _handle_errors on the response.
deployment_request(tok, exp, thr, t, cfg, tokresp, method, transport_ok, status) ==
    LET r == request(tok, exp, thr, t, cfg, tokresp, NoKwargs,
                     Req(method, "/deployments/1.0", -1), transport_ok) IN
    [req |-> r, err |-> IF r.err.type # "none" THEN r.err ELSE handle_errors(status)]

\* create that sends the request before it looks at its arguments.
create_validates_late(tok, exp, thr, t, cfg, tokresp, a, transport_ok, status) ==
    LET d == deployment_request(tok, exp, thr, t, cfg, tokresp, "POST",
                                transport_ok, status) IN
    IF Missing(a.name) THEN [d EXCEPT !.err = Required("name")]
    ELSE IF Missing(a.handle) THEN [d EXCEPT !.err = Required("handle")]
    ELSE IF Missing(a.parent_id) THEN [d EXCEPT !.err = Required("parent_id")]
    ELSE d

\* DeploymentsAPI.create
create(tok, exp, thr, t, cfg, tokresp, a, transport_ok, status) ==
    IF Missing(a.name) THEN [req |-> NoRequest(tok, exp), err |-> Required("name")]
    ELSE IF Missing(a.handle)
    THEN [req |-> NoRequest(tok, exp), err |-> Required("handle")]
    ELSE IF Missing(a.parent_id)
    THEN [req |-> NoRequest(tok, exp), err |-> Required("parent_id")]
    ELSE deployment_request(tok, exp, thr, t, cfg, tokresp, "POST", transport_ok, status)

\* DeploymentsAPI.delete
delete(tok, exp, thr, t, cfg, tokresp, a, transport_ok, status) ==
    IF Missing(a.customer_id)
    THEN [req |-> NoRequest(tok, exp), err |-> Required("customer_id")]
    ELSE IF Missing(a.parent_id)
    THEN [req |-> NoRequest(tok, exp), err |-> Required("parent_id")]
    ELSE deployment_request(tok, exp, thr, t, cfg, tokresp, "DELETE", transport_ok, status)

\* The arguments of the two calls, each given, empty or None.
Given == {None, Some(""), Some("x")}
CreateArgs ==
    {[name |-> n, handle |-> h, parent_id |-> p, customer_id |-> None, subdomain |-> sd] :
        n \in Given, h \in Given, p \in Given, sd \in {None, Some("acme")}}
DeleteArgs ==
    {[name |-> None, handle |-> None, parent_id |-> p, customer_id |-> c, subdomain |-> None] :
        c \in Given, p \in Given}
DeploymentStatuses == {200, 401, 404}
DeploymentSeen(fn, a, d) == CallSeen(fn, NoKwargs, d.req, d.err) @@ [args |-> a]

ClientCreate ==
    /\ io = Idle
    /\ \E tokresp \in RepliesFor(NeedsToken), a \in CreateArgs,
          transport_ok \in BOOLEAN, status \in DeploymentStatuses :
        LET d == create(token, expires_at, refresh_threshold, now, timeout,
                        tokresp, a, transport_ok, status) IN
        /\ token' = d.req.token
        /\ expires_at' = d.req.expires_at
        /\ io' = DeploymentSeen("create", a, d)
    /\ UNCHANGED <<page_num, exhausted>>
    /\ ClientFrame

ClientDelete ==
    /\ io = Idle
    /\ \E tokresp \in RepliesFor(NeedsToken), a \in DeleteArgs,
          transport_ok \in BOOLEAN, status \in DeploymentStatuses :
        LET d == delete(token, expires_at, refresh_threshold, now, timeout,
                        tokresp, a, transport_ok, status) IN
        /\ token' = d.req.token
        /\ expires_at' = d.req.expires_at
        /\ io' = DeploymentSeen("delete", a, d)
    /\ UNCHANGED <<page_num, exhausted>>
    /\ ClientFrame

\* The caller is done with the result of the call and may make the next one.
ClientDone ==
    /\ io # Idle
    /\ io' = Idle
    /\ UNCHANGED <<token, expires_at, page_num, exhausted>>
    /\ ClientFrame

\* ------------------------------------------------- the search request body
\* TimeFilter values and their to_dict().
Now == [filter |-> "Now", value |-> 0]
MinutesAgo(v) == [filter |-> "MinutesAgo", value |-> v]
HoursAgo(v) == [filter |-> "HoursAgo", value |-> v]
time_to_dict(f) ==
    CASE f.filter = "Now" -> [kind |-> "now", value |-> 0, unit |-> ""]
      [] f.filter = "MinutesAgo" -> [kind |-> "relative", value |-> f.value, unit |-> "minutes"]
      [] f.filter = "HoursAgo" -> [kind |-> "relative", value |-> f.value, unit |-> "hours"]

\* Sort(field, order) and its to_dict().
Sort(f, o) == <<f, o>>
sort_to_dict(srt) == [field |-> srt[1], order |-> srt[2]]

\* The arguments of FlowIterator as FlowsAPI.query gives them.
Params(i, q, s, e, srt, f, sz) ==
    [instances |-> i, query |-> q, start |-> s, end |-> e, sort |-> srt,
     fields |-> f, size |-> sz]
DefaultParams == Params(Instances, "", None, None, None, None, 100)

\* The request body with every member that is not None sent, empty or not.
payload_sends_empty(prm, page) ==
    [instance_ids |-> JsonVal(prm.instances),
     module |-> JsonVal("flows"),
     size |-> JsonVal(prm.size),
     page |-> JsonVal(page),
     sentence |-> JsonVal(prm.query),
     start |-> IF prm.start # None THEN JsonVal(time_to_dict(prm.start[1]))
               ELSE JsonAbsent,
     end |-> IF prm.end # None THEN JsonVal(time_to_dict(prm.end[1]))
             ELSE JsonAbsent,
     sort |-> IF prm.sort # None
              THEN JsonVal([i \in DOMAIN prm.sort[1] |-> sort_to_dict(prm.sort[1][i])])
              ELSE JsonAbsent,
     fields |-> IF prm.fields # None THEN JsonVal(prm.fields[1])
                ELSE JsonAbsent]

\* The request body _fetch_page(page) builds.
payload(prm, page) ==
    [instance_ids |-> JsonVal(prm.instances),
     module |-> JsonVal("flows"),
     size |-> JsonVal(prm.size),
     page |-> JsonVal(page),
     sentence |-> IF prm.query # "" THEN JsonVal(prm.query) ELSE JsonAbsent,
     start |-> IF prm.start # None THEN JsonVal(time_to_dict(prm.start[1]))
               ELSE JsonAbsent,
     end |-> IF prm.end # None THEN JsonVal(time_to_dict(prm.end[1]))
             ELSE JsonAbsent,
     sort |-> IF prm.sort # None /\ prm.sort[1] # <<>>
              THEN JsonVal([i \in DOMAIN prm.sort[1] |-> sort_to_dict(prm.sort[1][i])])
              ELSE JsonAbsent,
     fields |-> IF prm.fields # None /\ prm.fields[1] # <<>>
                THEN JsonVal(prm.fields[1])
                ELSE JsonAbsent]

\* The iterators FlowsAPI.query can construct.
Queries == {"", "dst.port eq 443"}
TimeFilters == {None, Some(Now), Some(MinutesAgo(5)), Some(HoursAgo(1))}
SortLists == {None, Some(<<>>), Some(<<Sort("bytes", "desc")>>),
              Some(<<Sort("bytes", "desc"), Sort("ts", "asc")>>)}
FieldLists == {None, Some(<<>>), Some(<<"src.ip">>), Some(<<"src.ip", "dst.port">>)}
Sizes == {100, 1}
ParamsGiven ==
    {Params(i, q, s, e, srt, f, sz) :
        i \in {l \in InstanceLists : l[1] = Instances[1]}, q \in Queries, s \in TimeFilters, e \in {None, Some(Now)},
        srt \in SortLists, f \in FieldLists, sz \in Sizes}

\* What a call of the iterator sends: the body of each of its page requests
\* with the page it is for, and the first body this iterator ever sent.
Searched(op, r) ==
    LET sent == [i \in DOMAIN r.reqs |-> payload(params, r.reqs[i])] IN
    [fn |-> "search", op |-> op, pages |-> r.reqs, sent |-> sent,
     earliest |-> IF io # Idle THEN io.earliest
                  ELSE IF sent # <<>> THEN Some(sent[1]) ELSE None]

SearchCall(op, r) ==
    /\ current_page' = r.cur.current_page
    /\ page_num' = r.cur.page_num
    /\ flow_index' = r.cur.flow_index
    /\ total_yielded' = r.cur.total_yielded
    /\ limit' = r.cur.limit
    /\ exhausted' = r.cur.exhausted
    /\ io' = Searched(op, r)
    /\ UNCHANGED <<script, yielded, requests, others, lastIt>>
    /\ UNCHANGED <<tmVars, timeout, params, builder>>

SearchFirst == SearchCall("first", first(Cursor, NoFail))
SearchNextPage == SearchCall("next_page", next_page(Cursor, NoFail))
SearchNext == SearchCall("next", next(Cursor, NoFail))

\* ------------------------------------------------------------ the Q builder
\* Values given to the operator methods: an int, a str or a list of those.
NoArg == [kind |-> "none", n |-> 0, s |-> "", items |-> <<>>]
IntArg(n) == [kind |-> "int", n |-> n, s |-> "", items |-> <<>>]
StrArg(str) == [kind |-> "str", n |-> 0, s |-> str, items |-> <<>>]
ListArg(l) == [kind |-> "list", n |-> 0, s |-> "", items |-> l]

\* sep.join(parts)
RECURSIVE join(_, _)
join(parts, sep) ==
    IF parts = <<>> THEN ""
    ELSE IF Len(parts) = 1 THEN parts[1]
    ELSE parts[1] \o sep \o join(Tail(parts), sep)

\* _format_value that puts strings in quotes.
format_value_quotes(value) ==
    IF value.kind = "str" THEN "'" \o value.s \o "'" ELSE ToString(value.n)

\* _format_value: a str as it is, anything else through str().
format_value(value) ==
    IF value.kind = "str" THEN value.s ELSE ToString(value.n)

\* _format_condition
format_condition(field, op, value) ==
    IF op \in {"ex", "nex"} THEN field \o " " \o op
    ELSE IF op = "in"
    THEN field \o " " \o op \o " ["
         \o join([i \in DOMAIN value.items |-> format_value(value.items[i])], ", ")
         \o "]"
    ELSE field \o " " \o op \o " " \o format_value(value)

\* Q(field)
Q(field) == [parts |-> <<>>, pending_conjunction |-> None, pending_field |-> field]

\* The pending conjunction put in front of whatever comes next, first or not.
with_conjunction_at_start(q) ==
    IF q.pending_conjunction # None
    THEN [q EXCEPT !.parts = Append(@, q.pending_conjunction[1]),
                   !.pending_conjunction = None]
    ELSE q

\* The pending conjunction goes in before the next part unless it is the first.
with_conjunction(q) ==
    IF q.pending_conjunction # None /\ q.parts # <<>>
    THEN [q EXCEPT !.parts = Append(@, q.pending_conjunction[1]),
                   !.pending_conjunction = None]
    ELSE q

\* _add_condition
add_condition(q, field, op, value) ==
    [with_conjunction(q) EXCEPT !.parts = Append(@, format_condition(field, op, value))]

\* eq, ne, gt, lt, gte, lte, exists, not_exists, in_, wildcard, not_wildcard
\* with a pending field (without one they raise ValueError).
condition(q, op, value) ==
    [add_condition(q, q.pending_field[1], op, value) EXCEPT !.pending_field = None]

\* The ValueError of an operator method called with no pending field; eq
\* adds a hint to the message.
NoFieldSpecified(op) ==
    Err("ValueError",
        IF op = "eq" THEN "No field specified. Use Q('field_name').eq(value)"
        ELSE "No field specified",
        "", 0, "")

\* An operator method that forgets the pending conjunction before it raises.
operator_forgets_conjunction(q, op, value) ==
    IF q.pending_field = None
    THEN [q |-> [q EXCEPT !.pending_conjunction = None], err |-> NoFieldSpecified(op)]
    ELSE [q |-> condition(q, op, value), err |-> NoErr]

\* eq, ne, gt, lt, gte, lte, exists, not_exists, in_, wildcard, not_wildcard:
\* the builder the call leaves and the error it raises (if any).
operator(q, op, value) ==
    IF q.pending_field = None
    THEN [q |-> q, err |-> NoFieldSpecified(op)]
    ELSE [q |-> condition(q, op, value), err |-> NoErr]

\* and_ and or_: `if field:` takes neither None nor "".
conjunction(q, word, field) ==
    [q EXCEPT !.pending_conjunction = Some(word),
              !.pending_field = IF field # None /\ field[1] # "" THEN field ELSE @]
and_(q, field) == conjunction(q, "and", field)
or_(q, field) == conjunction(q, "or", field)

build(q) == join(q.parts, " ")

add_group(q, query) ==
    [with_conjunction(q) EXCEPT !.parts = Append(@, "(" \o build(query) \o ")")]

\* Q.group(query)
group(query) == [Q(None) EXCEPT !.parts = <<"(" \o build(query) \o ")">>]

\* Q.raw(pql)
raw(pql) == [Q(None) EXCEPT !.parts = <<pql>>]

\* The calls made on a builder, as the caller wrote them.
OpCall(op, arg) == [call |-> "op", word |-> op, field |-> None, arg |-> arg, inner |-> <<>>]
ConjCall(word, field) == [call |-> "conj", word |-> word, field |-> field, arg |-> NoArg, inner |-> <<>>]
GroupCall(ch) == [call |-> "add_group", word |-> "", field |-> None, arg |-> NoArg, inner |-> <<ch>>]
NoCallYet == [call |-> "none", word |-> "", field |-> None, arg |-> NoArg, inner |-> <<>>]
\* A chain: Q(field), Q.group(inner) or Q.raw(pql), and the calls after it.
Chain(field, grp, calls) == [field |-> field, group |-> grp, raw |-> None, calls |-> calls]
RawChain(pql) == [Chain(None, None, <<>>) EXCEPT !.raw = Some(pql)]

OpCalls ==
    {OpCall("eq", IntArg(443)), OpCall("eq", StrArg("tcp")), OpCall("ne", StrArg("icmp")),
     OpCall("gt", IntArg(1000)), OpCall("lt", IntArg(1)), OpCall("gte", IntArg(1)),
     OpCall("lte", IntArg(1)), OpCall("ex", NoArg), OpCall("nex", NoArg),
     OpCall("in", ListArg(<<StrArg("tcp"), IntArg(80)>>)),
     OpCall("wi", StrArg("*srv*")), OpCall("nwi", StrArg("*test*"))}
ConjFields == {None, Some("bytes")}
RawTexts == {"dst.ip eq 10.90.8.53"}
InnerChains ==
    {Chain(Some("dst.port"), None,
           <<OpCall("eq", IntArg(443)), ConjCall("or", Some("bytes")), OpCall("gt", IntArg(1000))>>),
     Chain(Some("dst.port"), None, <<OpCall("ex", NoArg)>>)}

\* The builder a chain without groups leaves.
call(q, c) ==
    IF c.call = "op" THEN condition(q, c.word, c.arg)
    ELSE IF c.word = "and" THEN and_(q, c.field) ELSE or_(q, c.field)
RECURSIVE run(_, _)
run(q, calls) == IF calls = <<>> THEN q ELSE run(call(q, Head(calls)), Tail(calls))
Built(ch) == run(Q(ch.field), ch.calls)

\* The calls that returned so far, the last call made and what it raised.
Called(c) ==
    [fn |-> "Q", chain |-> [io.chain EXCEPT !.calls = Append(@, c)],
     last |-> c, err |-> NoErr]
Refused(c, err) == [io EXCEPT !.last = c, !.err = err]
QueryFrame == UNCHANGED <<tmVars, itVars, timeout, params>>

QCondition ==
    /\ Len(io.chain.calls) < MaxCalls
    /\ \E c \in OpCalls :
        LET r == operator(builder, c.word, c.arg) IN
        /\ builder' = r.q
        /\ io' = IF r.err.type = "none" THEN Called(c) ELSE Refused(c, r.err)
    /\ QueryFrame

QAnd ==
    /\ Len(io.chain.calls) < MaxCalls
    /\ \E field \in ConjFields :
        /\ builder' = and_(builder, field)
        /\ io' = Called(ConjCall("and", field))
    /\ QueryFrame

QOr ==
    /\ Len(io.chain.calls) < MaxCalls
    /\ \E field \in ConjFields :
        /\ builder' = or_(builder, field)
        /\ io' = Called(ConjCall("or", field))
    /\ QueryFrame

QAddGroup ==
    /\ Len(io.chain.calls) < MaxCalls
    /\ \E ch \in InnerChains :
        /\ builder' = add_group(builder, Built(ch))
        /\ io' = Called(GroupCall(ch))
    /\ QueryFrame

\* --------------------------------------------- functions of their arguments
\* The responses a page request can be given.
PartsOf(k) ==
    {[key |-> FALSE, data |-> NoData]}
    \cup {[key |-> TRUE,
           data |-> [flows |-> f, found |-> n, more_data_available |-> m]] :
            f \in {JsonAbsent, JsonVal(<<>>), JsonVal(Flows(k, 1)), JsonVal(Flows(k, 2))},
            n \in {JsonAbsent, JsonVal(7)},
            m \in {JsonAbsent, JsonVal(TRUE), JsonVal(FALSE)}}
Bodies == {[i \in InstanceIds |-> IF i = "i1" THEN a ELSE b] :
            a \in PartsOf(1), b \in PartsOf(2)}
PageResponses ==
    {Page401(e, c) : e \in {JsonAbsent, JsonVal("unauthorized")},
                     c \in {JsonAbsent, JsonVal("E401")}}
    \cup {Page400(JsonAbsent, NoErrorObj), Page400(JsonVal("bad request"), NoErrorObj)}
    \cup {Page400(JsonAbsent, ErrorObj(m, d)) :
            m \in {JsonAbsent, JsonVal("bad field")},
            d \in {JsonAbsent, JsonVal("size: too large")}}
    \cup {PageStatus(st) : st \in {201, 403, 500}}
    \cup {Page200(b) : b \in Bodies}

\* _fetch_page from the response on: one response handled for one iterator.
HandleResponse ==
    /\ io = Idle
    /\ \E instances \in InstanceLists, resp \in PageResponses :
        io' = [fn |-> "_fetch_page", instances |-> instances, resp |-> resp,
               out |-> handle_response(instances, resp)]
    /\ UNCHANGED <<tmVars, itVars, timeout, params, builder>>

\* ---------------------------------------------------------- specifications
\* TokenManager on its own; the iterator is idle on an empty script.
Init ==
    /\ InitTM
    /\ script = [p \in 0..(MaxPages - 1) |-> [len |-> 0, more |-> FALSE]]
    /\ InitIt
    /\ io = Idle
    /\ timeout = DefaultTimeout
    /\ params = DefaultParams
    /\ builder = Q(None)

Next == GetToken \/ Refresh \/ IsExpired \/ Clear \/ Tick

Spec == Init /\ [][Next]_vars

\* FlowIterator over every script; Prophet._request is given by its outcomes.
InitIter ==
    /\ InitTM
    /\ refresh_threshold = 0
    /\ script \in Scripts
    /\ InitIt
    /\ io = Idle
    /\ timeout = DefaultTimeout
    /\ params = DefaultParams
    /\ builder = Q(None)

NextIter == Take \/ First \/ NextPage \/ FlatNext

SpecIter == InitIter /\ [][NextIter]_vars

\* Flat consumption of a scripted page sequence, with take().
NextFlat == Take \/ FlatNextOk

SpecFlat == InitIter /\ [][NextFlat]_vars

\* The handling of one response to a page request, over every response.
InitPure == Init /\ refresh_threshold = 0

SpecFetch == InitPure /\ [][HandleResponse]_vars

\* The client: token calls, _request, and first() and next_page() over
\* _request, with the clock advancing, for every configured timeout.
InitClient ==
    /\ InitTM
    /\ script = [p \in 0..(MaxPages - 1) |-> [len |-> 1, more |-> p = 0]]
    /\ InitIt
    /\ io = Idle
    /\ timeout \in Timeouts
    /\ params = DefaultParams
    /\ builder = Q(None)

NextClient ==
    ClientGetToken \/ ClientRefresh \/ ClientRequest \/ ClientFirst
    \/ ClientNextPage \/ ClientCreate \/ ClientDelete \/ ClientDone \/ Tick

SpecClient == InitClient /\ [][NextClient]_vars

\* Flat and page-wise consumption with take() and collect(), collect() under
\* every outcome of its page requests.
NextCollect == TakeOp \/ NextOk \/ NextPageOk \/ CollectOp

SpecCollect == InitIter /\ [][NextCollect]_vars

\* The page requests of every iterator FlowsAPI.query can construct.
InitSearch ==
    /\ InitTM
    /\ refresh_threshold = 0
    /\ script = [p \in 0..(MaxPages - 1) |-> [len |-> 1, more |-> TRUE]]
    /\ InitIt
    /\ io = Idle
    /\ timeout = DefaultTimeout
    /\ params \in ParamsGiven
    /\ builder = Q(None)

NextSearch == SearchFirst \/ SearchNextPage \/ SearchNext

SpecSearch == InitSearch /\ [][NextSearch]_vars

\* Every sequence of calls on a builder made by Q(), Q(field), Q.group or Q.raw.
InitQuery ==
    /\ InitTM
    /\ refresh_threshold = 0
    /\ script = [p \in 0..(MaxPages - 1) |-> [len |-> 0, more |-> FALSE]]
    /\ InitIt
    /\ timeout = DefaultTimeout
    /\ params = DefaultParams
    /\ \E ch \in {Chain(None, None, <<>>), Chain(Some("dst.port"), None, <<>>)}
                 \cup {Chain(None, Some(i), <<>>) : i \in InnerChains}
                 \cup {RawChain(pql) : pql \in RawTexts} :
        /\ builder = IF ch.group # None THEN group(Built(ch.group[1]))
                     ELSE IF ch.raw # None THEN raw(ch.raw[1])
                     ELSE Q(ch.field)
        /\ io = [fn |-> "Q", chain |-> ch, last |-> NoCallYet, err |-> NoErr]

NextQuery == QCondition \/ QAnd \/ QOr \/ QAddGroup

SpecQuery == InitQuery /\ [][NextQuery]_vars

\* Every operation of the iterator, any number of times and in any order,
\* over every script, each page request answered with its page.
NextOps == TakeOp \/ FirstOk \/ NextPageOk \/ NextOk

SpecOps == InitIter /\ [][NextOps]_vars

\* The fetching operations, any number of times and in any order, over every
\* script and every outcome of a page request.
NextFail == FirstOp \/ NextPageOp \/ NextOp

SpecFail == InitIter /\ [][NextFail]_vars

\* ================================================================= claims
Cached(tok, exp) == tok # None /\ exp # None
Fetching(l) == l.op \in {"get_token", "refresh"} /\ l.fetches = 1
Raised(l, t) == l.err.type = t /\ l.ret = None

\* A step that is a call of op: every call records itself in last, and the
\* clock moves only between calls.
CallOf(op) == now' = now /\ last'.op = op

\* C1: whenever get_token returns a token, the current time is before the
\* cached expires_at at the moment of return.
C1_ReturnedTokenNotExpired ==
    (last.op = "get_token" /\ last.ret # None)
        => (expires_at # None /\ last.at < expires_at[1])

\* C2: in every reachable state the token is present exactly when the expiry
\* is present.
C2_TokenIffExpiry ==
    (token = None) <=> (expires_at = None)

\* C3: every get_token call returns a present token or fails with
\* AuthenticationError and returns nothing; no other error escapes.
C3_TokenOrAuthenticationError ==
    last.op = "get_token"
        => \/ (last.err.type = "none" /\ last.ret # None)
           \/ Raised(last, "AuthenticationError")

\* C4: for every threshold >= 0, get_token on an empty manager performs exactly
\* one fetch, and a get_token called right after one that returned a token
\* from the empty state performs no fetch and returns that same token,
\* provided now < expires_at - refresh_threshold.
C4_OneFetchThenCached ==
    [][CallOf("get_token") =>
        /\ (token = None /\ expires_at = None) => last'.fetches = 1
        /\ (/\ last.op = "get_token" /\ last.empty /\ last.ret # None
            /\ expires_at # None
            /\ now < expires_at[1] - refresh_threshold)
               => (last'.fetches = 0 /\ last'.err.type = "none"
                   /\ last'.ret = last.ret)]_vars

C4_Witness ==
    /\ last.op = "get_token" /\ prev.op = "get_token" /\ prev.empty /\ prev.ok
    /\ last.fetches = 0 /\ last.ret # None
    /\ refresh_threshold > 0

\* C5: with a token cached, get_token fetches if and only if
\* now >= expires_at - refresh_threshold, equality included.
C5_FetchIffWithinThreshold ==
    [][(CallOf("get_token") /\ Cached(token, expires_at))
        => (last'.fetches = 1 <=> now >= expires_at[1] - refresh_threshold)]_vars

\* A fetch at the boundary instant; it failed, so the cached pair is the one
\* the call started from.
C5_Witness ==
    /\ last.op = "get_token" /\ ~last.empty /\ last.fetches = 1
    /\ last.resp.kind = "transport"
    /\ Cached(token, expires_at)
    /\ last.at = expires_at[1] - refresh_threshold
    /\ refresh_threshold > 0

\* C6: refresh performs exactly one fetch on every call and, when it returns,
\* both cached values are the fetched ones and the new token is returned.
C6_RefreshAlwaysFetches ==
    last.op = "refresh"
        => /\ last.fetches = 1
           /\ last.err.type = "none"
                  => /\ last.resp.status = 200
                     /\ token = last.resp.access_token.val
                     /\ expires_at = last.resp.expires_at.val
                     /\ Cached(token, expires_at)
                     /\ last.ret = token

\* A refresh that returned on a manager whose pair was cached by the
\* get_token before it.
C6_Witness ==
    /\ last.op = "refresh" /\ last.err.type = "none" /\ ~last.empty
    /\ prev.op = "get_token" /\ prev.ok
    /\ token = Some("t2")

\* C7: is_expired performs no network call, leaves the token state unchanged
\* and returns true exactly when no expiry is cached or now >= expires_at.
C7_IsExpiredPure ==
    [][CallOf("is_expired") =>
        /\ last'.fetches = 0
        /\ token' = token /\ expires_at' = expires_at
        /\ last'.retb <=> (expires_at = None \/ now >= expires_at[1])]_vars

C7_Witness ==
    /\ last.op = "is_expired" /\ Cached(token, expires_at)
    /\ last.at = expires_at[1] /\ last.retb

\* C8: clear empties both cached values without a network call, whatever the
\* prior state, and the get_token that follows performs a fetch.
C8_ClearThenFetch ==
    /\ last.op = "clear"
           => (token = None /\ expires_at = None /\ last.fetches = 0)
    /\ (last.op = "get_token" /\ prev.op = "clear") => last.fetches = 1

C8_Witness ==
    /\ last.op = "get_token" /\ prev.op = "clear" /\ ~prev.empty
    /\ last.fetches = 1 /\ last.ret # None

\* C9: a token fetch answered by a transport failure, a 401 or another non-200
\* status raises AuthenticationError (cause chained; code and message of the
\* 401 body; the status code) and leaves the token state as it was: only a
\* 200 response populates it.
C9_FetchFailureMapping ==
    [][((CallOf("get_token") \/ CallOf("refresh")) /\ last'.fetches = 1) =>
        /\ last'.resp.kind = "transport"
               => (Raised(last', "AuthenticationError") /\ last'.err.cause # "")
        /\ (last'.resp.kind = "http" /\ last'.resp.status = 401)
               => /\ Raised(last', "AuthenticationError")
                  /\ last'.resp.error.key
                         => last'.err.message = last'.resp.error.val[1]
                  /\ last'.resp.code.key
                         => last'.err.code = last'.resp.code.val[1]
        /\ (last'.resp.kind = "http" /\ last'.resp.status \notin {200, 401})
               => /\ Raised(last', "AuthenticationError")
                  /\ last'.err.status_code = last'.resp.status
        /\ (last'.resp.kind = "transport" \/ last'.resp.status # 200)
               => (token' = token /\ expires_at' = expires_at)]_vars

C9_Witness ==
    /\ Fetching(last) /\ last.resp.status = 401
    /\ last.resp.error.key /\ last.resp.code.key
    /\ last.err.code = "E401" /\ last.err.message = "bad_client"
    /\ Cached(token, expires_at)

\* ---- FlowIterator
\* The scripted sequence: pages 0..LastPage, the first page that reports no
\* more data being the last one.
FinalPages == {p \in 0..MaxPages : ~ServerData(p).more_data_available}
LastPage == CHOOSE p \in FinalPages : \A q \in FinalPages : p <= q

RECURSIVE Concat(_)
Concat(p) == IF p = 0 THEN ServerData(0).flows
             ELSE Concat(p - 1) \o ServerData(p).flows

AllRecords == Concat(LastPage)
UpTo(n) == [i \in 1..n |-> i - 1]
IsPrefix(a, b) == Len(a) <= Len(b) /\ a = SubSeq(b, 1, Len(a))

\* Only flat-iteration requests, none of which failed, on a fresh iterator.
FlatOnly == others = {}
Ended(l) == l.op = "next" /\ l.err.type = "StopIteration"
AfterEnd == lastIt.op = "next" /\ lastIt.before = "end"

\* C10: over pages 0..N-1 (more-available true up to N-2, false at N-1) flat
\* iteration on a fresh iterator yields the concatenation of the pages'
\* records in page order and requests each index 0..N-1 exactly once; a
\* request after the end yields nothing and fetches nothing.
C10_FlatYieldsConcatenation ==
    /\ FlatOnly =>
        /\ IsPrefix(yielded, AllRecords)
        /\ IsPrefix(requests, UpTo(LastPage + 1))
        /\ Ended(lastIt)
               => (yielded = AllRecords /\ requests = UpTo(LastPage + 1))
    /\ (FlatOnly /\ AfterEnd) => (Ended(lastIt) /\ lastIt.reqs = <<>>)

C10_Witness ==
    /\ FlatOnly /\ AfterEnd /\ Ended(lastIt)
    /\ LastPage >= 1 /\ Len(yielded) >= 3
    /\ yielded = AllRecords /\ requests = UpTo(LastPage + 1)

\* ------------------------------------------------------------ take()
Min(a, b) == IF a <= b THEN a ELSE b
Capped(c) == c.limit # None /\ c.total_yielded >= c.limit[1]

\* take() was called on the fresh iterator and only flat-iteration requests,
\* none of which failed, followed it.
TakenFirst == others = {"take"}

\* C11: with take(k) applied before any consumption, flat iteration yields
\* exactly min(k, total) records, total being the number of records of the
\* scripted pages, for every k from 0 on: never more while it runs, and
\* exactly that many once the sequence has ended.
C11_TakeYieldsMin ==
    TakenFirst =>
        /\ IsPrefix(yielded, AllRecords)
        /\ Len(yielded) <= Min(limit[1], Len(AllRecords))
        /\ Ended(lastIt) => Len(yielded) = Min(limit[1], Len(AllRecords))

C11_Witness ==
    /\ TakenFirst /\ Ended(lastIt)
    /\ limit = Some(1) /\ Len(AllRecords) >= 2
    /\ yielded = SubSeq(AllRecords, 1, 1)

\* C12: whenever a limit n is in force and total_yielded >= n, a flat
\* request ends the sequence, fetches no page (and asks for no token) and
\* leaves the cursor as it was; so nothing is fetched past the page holding
\* the n-th record, and take(0) on a fresh iterator ends with no fetch.
C12_CappedRequestFetchesNothing ==
    [][(lastIt'.op = "next" /\ Capped(Cursor))
        => /\ lastIt'.err = StopIteration /\ lastIt'.ret = None
           /\ lastIt'.reqs = <<>> /\ lastIt'.tokens = 0
           /\ Cursor' = Cursor]_vars

\* The limit was reached at the end of a page after which more is available.
C12_Witness ==
    /\ Ended(lastIt) /\ lastIt.reqs = <<>> /\ Capped(Cursor)
    /\ limit = Some(1) /\ current_page # None
    /\ current_page[1].has_more /\ flow_index = Len(current_page[1].flows)

\* ------------------------------------------------ next_page() and first()
Failing(l) == l.err.type \notin {"none", "StopIteration"}
Returned(l) == l.err.type = "none" /\ l.ret # None
PageAt(p) == Some(from_response(Members(ServerData(p))))

\* C13: next_page() with _exhausted false sends exactly one page request,
\* for index _page_num, then adds exactly one to _page_num, sets _exhausted
\* if and only if the fetched page's has_more is false, and returns the
\* fetched page; nothing else of the cursor changes.  (A call whose fetch
\* fails sends at most that one request.)
C13_NextPageFetchesAtPageNum ==
    [][(lastIt'.op = "next_page" /\ ~exhausted)
        => /\ IsPrefix(lastIt'.reqs, <<page_num>>)
           /\ ~Failing(lastIt')
               => /\ lastIt'.reqs = <<page_num>>
                  /\ lastIt'.ret = PageAt(page_num)
                  /\ page_num' = page_num + 1
                  /\ exhausted' = ~lastIt'.ret[1].has_more
                  /\ current_page' = current_page /\ flow_index' = flow_index
                  /\ total_yielded' = total_yielded /\ limit' = limit]_vars

\* A second next_page() fetched page 1 and a third fetched the final page.
C13_Witness ==
    /\ lastIt.op = "next_page" /\ Returned(lastIt)
    /\ lastIt.reqs = <<2>> /\ page_num = 3 /\ exhausted

\* C14: next_page() with _exhausted true returns None, makes no network
\* call (no page request, no get_token) and changes no iterator state.
C14_ExhaustedNextPageIsNoOp ==
    [][(lastIt'.op = "next_page" /\ exhausted)
        => /\ lastIt'.ret = None /\ lastIt'.err = NoErr
           /\ lastIt'.reqs = <<>> /\ lastIt'.tokens = 0
           /\ Cursor' = Cursor]_vars

C14_Witness ==
    /\ lastIt.op = "next_page" /\ lastIt.err = NoErr /\ lastIt.ret = None
    /\ exhausted /\ page_num >= 2

\* C15: first() always requests page 0, whatever the cursor, and leaves
\* _page_num, _exhausted, _current_page, _flow_index, _total_yielded and
\* _limit as they were; so flat iteration begun after first() requests page
\* 0 again.
C15_FirstRequestsPageZeroOnly ==
    [][/\ lastIt'.op = "first"
           => (lastIt'.reqs = <<0>> /\ lastIt'.ret = PageAt(0)
               /\ Cursor' = Cursor)
       /\ (lastIt.op = "first" /\ lastIt'.op = "next"
           /\ current_page = None /\ ~Capped(Cursor))
           => (lastIt'.reqs # <<>> /\ Head(lastIt'.reqs) = 0)]_vars

\* first() was called with the cursor advanced, a limit set and _exhausted
\* true.
C15_Witness ==
    /\ lastIt.op = "first" /\ Returned(lastIt) /\ lastIt.reqs = <<0>>
    /\ page_num >= 2 /\ flow_index >= 1 /\ total_yielded >= 1
    /\ limit # None /\ exhausted

Fetched(l) == l.tokens - 1

StrictlyIncreasing(q) == \A i, j \in DOMAIN q : i < j => q[i] < q[j]

\* C17: over any sequence of first(), next_page() and __next__ calls on one
\* iterator, the page indices of the requests it sends are strictly
\* increasing: none is requested twice, none after a larger one.
C17_RequestsStrictlyIncreasing == StrictlyIncreasing(requests)

\* C18: _page_num is a non-negative integer that never decreases, under any
\* sequence of operations, failing fetches included.
C18_PageNumNeverDecreases ==
    [][(page_num' >= page_num) /\ (page_num' \in Nat)]_vars

\* ------------------------------------------------------------ _flow_index
PageLen(pg) == IF pg = None THEN 0 ELSE Len(pg[1].flows)

\* C19: between operations _flow_index is at most the number of records of
\* the buffered page (0 when none is buffered), and a record is only read
\* at an offset strictly below that number: a returned record is the one
\* at the offset _flow_index had, which was below the page's length.
C19_FlowIndexWithinPage ==
    /\ flow_index \in 0..PageLen(current_page)
    /\ (lastIt.op = "next" /\ Returned(lastIt))
        => /\ flow_index - 1 \in 0..(PageLen(current_page) - 1)
           /\ lastIt.ret[1] = current_page[1].flows[flow_index]

\* The last record of a page was read after shorter pages and a failure.
C19_Witness ==
    /\ lastIt.op = "next" /\ Returned(lastIt)
    /\ current_page = PageAt(1) /\ flow_index = 2
    /\ PageLen(current_page) = 2 /\ PageLen(PageAt(0)) = 1

\* C20: once flat iteration has returned the last record of a page whose
\* has_more is false, _exhausted is true (so that a following next_page()
\* returns None without a network call).
C20_ExhaustedAfterLastRecord ==
    (/\ lastIt.op = "next" /\ Returned(lastIt)
     /\ ~current_page[1].has_more
     /\ flow_index = PageLen(current_page))
        => exhausted

\* ------------------------------------------------------------ total_found
\* The page fetches of a call that returned a page.
Succeeded(l) == IF Failing(l) THEN l.tokens - 1 ELSE l.tokens

\* C21: total_found is None until flat iteration has fetched its first
\* page; from then on it is the found count of the page flat iteration
\* buffered last; first() and next_page() never change it.
C21_TotalFoundOfBufferedPage ==
    [][/\ lastIt'.op \in {"first", "next_page", "take"}
           => total_found(Cursor') = total_found(Cursor)
       /\ (lastIt'.op = "next" /\ Succeeded(lastIt') = 0)
           => total_found(Cursor') = total_found(Cursor)
       /\ (lastIt'.op = "next" /\ Succeeded(lastIt') > 0)
           => total_found(Cursor')
                  = Some(ServerData(lastIt'.reqs[Succeeded(lastIt')]).found)
       /\ lastIt.op = "init" => total_found(Cursor) = None]_vars

\* Flat iteration had buffered page 1 when first() fetched page 0:
\* total_found is still the count page 1 reported.
C21_Witness ==
    /\ lastIt.op = "first" /\ Returned(lastIt)
    /\ page_num >= 2 /\ current_page = PageAt(1)
    /\ total_found(Cursor) = Some(ServerData(1).found)
    /\ ServerData(1).found # ServerData(0).found

\* ------------------------------------------------------------- laziness
\* C22: constructing the iterator and calling take() make no network call:
\* no page request is sent and no token is asked for before the first
\* first(), next_page() or flat-iteration request.
C22_ConstructionAndTakeAreLazy ==
    [][/\ lastIt.op = "init"
           => (requests = <<>> /\ lastIt.tokens = 0 /\ current_page = None)
       /\ lastIt'.op = "take"
           => /\ requests' = requests
              /\ lastIt'.reqs = <<>> /\ lastIt'.tokens = 0
              /\ current_page' = current_page
              /\ token' = token /\ expires_at' = expires_at]_vars

\* take(2) on the constructed iterator, and still nothing was sent.
C22_Witness ==
    /\ lastIt.op = "take" /\ others = {"take"} /\ limit = Some(2)
    /\ requests = <<>> /\ current_page = None /\ token = None

\* ------------------------------------------------- responses to a fetch
Handled == io.fn = "_fetch_page"

\* C23: a page fetch maps statuses to errors: 401 raises an authentication
\* failure with the server's code and message; 400 raises a validation
\* failure (ValidationError, the validation kind of the taxonomy) with the
\* server's structured detail; any other status but 200 raises the generic
\* API failure with the status code; only 200 gives a page.
C23_FetchErrorMapping ==
    Handled =>
        /\ io.resp.status = 401 =>
            /\ io.out.err.type = "AuthenticationError"
            /\ io.resp.error.key => Some(io.out.err.message) = io.resp.error.val
            /\ io.resp.code.key => Some(io.out.err.code) = io.resp.code.val
        /\ io.resp.status = 400 =>
            /\ io.out.err.type = "ValidationError"
            /\ io.out.details = io.resp.error_obj.details.val
        /\ io.resp.status \notin {200, 400, 401} =>
            /\ io.out.err.type = "APIError"
            /\ io.out.err.status_code = io.resp.status
        /\ io.out.page # None <=> io.resp.status = 200
        /\ io.out.page # None <=> io.out.err = NoErr

\* The records stored in a body under an instance id.
RecordsUnder(body, i) ==
    IF body[i].key THEN JsonGet(body[i].data.flows, <<>>) ELSE <<>>

\* C27: a page is built only from the part of the keyed 200 body stored
\* under the first configured instance id: it holds that part's records and
\* counts and no record stored under another id; when the key is missing
\* the page is empty with has_more false, and flat iteration over it ends
\* without an error.
C27_PageFromFirstInstanceOnly ==
    (Handled /\ io.resp.status = 200) =>
        LET i == io.instances[1]
            part == io.resp.body[i]
            page == io.out.page[1]
        IN  /\ io.out.err = NoErr
            /\ page.flows = RecordsUnder(io.resp.body, i)
            /\ part.key => page = from_response(part.data)
            /\ ~part.key =>
                /\ page = [flows |-> <<>>, found |-> 0, has_more |-> FALSE]
                /\ next_loop([Cursor EXCEPT !.current_page = io.out.page,
                                            !.page_num = 1],
                             <<0>>, NoFail, 1)
                       = Result([Cursor EXCEPT !.current_page = io.out.page,
                                               !.page_num = 1],
                                <<0>>, StopIteration, None)

\* The body stores records under both ids and "i2" is configured first.
C27_Witness ==
    /\ Handled /\ io.resp.status = 200 /\ io.instances = <<"i2", "i1">>
    /\ RecordsUnder(io.resp.body, "i1") = Flows(1, 2)
    /\ RecordsUnder(io.resp.body, "i2") = Flows(2, 1)
    /\ io.out.page[1].flows = Flows(2, 1)

\* ---- claims about the client (SpecClient)
CallRaised(c) == c.err.type # "none"
TokenOps == {"get_token", "refresh"}
PageOps == {"first", "next_page"}
ThroughRequest == {"_request", "first", "next_page"}
\* The token request of the call failed: one was made and no token came back.
TokenRequestFailed(c) == c.token_requests = 1 /\ c.got = None

\* C24: no operation retries.  A get_token() or refresh() call makes at most
\* one token request and a first() or next_page() call sends at most one page
\* request (and makes at most one token request for it); a call whose token
\* request failed raises and sends no request, and a call whose page request
\* failed raises having sent that one request only.
C24_NoRetry ==
    io # Idle =>
        /\ io.token_requests <= 1
        /\ Len(io.sent) <= 1
        /\ io.fn \in TokenOps => io.sent = <<>>
        /\ TokenRequestFailed(io) => (CallRaised(io) /\ io.sent = <<>>)
        /\ (io.fn \in PageOps /\ CallRaised(io) /\ io.got # None) => Len(io.sent) = 1

\* A next_page() that fetched a token, sent its page request and raised.
C24_Witness ==
    /\ io # Idle
    /\ io.fn = "next_page"
    /\ io.token_requests = 1
    /\ Len(io.sent) = 1
    /\ CallRaised(io)

\* C25: every request sent through _request (a search or a deployment call)
\* is sent after exactly one get_token() call, carries Authorization: Bearer
\* <the token that call returned> and Content-Type: application/json
\* whatever headers the caller gave, and is not sent when get_token() raised.
C25_AuthenticatedHeaders ==
    (io # Idle /\ io.fn \in ThroughRequest /\ io.token_calls > 0) =>
        /\ io.token_calls = 1
        /\ io.got = None => (io.sent = <<>> /\ CallRaised(io))
        /\ io.got # None =>
            (/\ Len(io.sent) = 1
            /\ io.sent[1].headers.Authorization = JsonVal(Bearer(io.got[1]))
            /\ io.sent[1].headers.ContentType = JsonVal("application/json"))

\* A request sent with a fetched token although the caller gave both headers.
C25_Witness ==
    /\ io # Idle
    /\ io.fn = "_request"
    /\ io.kw.headers.Authorization.key
    /\ io.kw.headers.ContentType.key
    /\ io.token_requests = 1
    /\ Len(io.sent) = 1
    /\ io.sent[1].headers.Authorization = JsonVal(Bearer(io.got[1]))
    /\ io.sent[1].headers.Authorization # io.kw.headers.Authorization

\* C28: the timeout of the token request of a search call equals the timeout
\* of its search request, for every configured timeout.
C28_UniformTimeout ==
    (io # Idle /\ io.fn \in PageOps /\ io.token_requests = 1 /\ io.sent # <<>>) =>
        io.auth_timeouts[1] = io.sent[1].timeout

\* ---- claims about the search request body (SpecSearch)
\* Member m is carried with value v exactly when it is set.
CarriedIff(m, set, v) == IF set THEN m = JsonVal(v) ELSE m = JsonAbsent
NonEmpty(o) == o # None /\ o[1] # <<>>
SortDicts(l) == [j \in DOMAIN l |-> sort_to_dict(l[j])]

\* C26: every page request of first(), next_page() and flat iteration carries
\* the instance ids, the module tag "flows", the page size and the page index
\* it is for; it carries the query string, the start bound, the end bound,
\* the sort list and the field list exactly when that one is set and not
\* empty (otherwise the member is absent, never empty or null); and it equals
\* the first request of the iterator except for the page index.
C26_PageRequestBody ==
    io.fn = "search" =>
        \A i \in DOMAIN io.sent :
            LET b == io.sent[i] IN
            /\ b.instance_ids = JsonVal(params.instances)
            /\ b.module = JsonVal("flows")
            /\ b.size = JsonVal(params.size)
            /\ b.page = JsonVal(io.pages[i])
            /\ CarriedIff(b.sentence, params.query # "", params.query)
            /\ CarriedIff(b.start, params.start # None,
                          IF params.start # None THEN time_to_dict(params.start[1]) ELSE 0)
            /\ CarriedIff(b.end, params.end # None,
                          IF params.end # None THEN time_to_dict(params.end[1]) ELSE 0)
            /\ CarriedIff(b.sort, NonEmpty(params.sort),
                          IF NonEmpty(params.sort) THEN SortDicts(params.sort[1]) ELSE 0)
            /\ CarriedIff(b.fields, NonEmpty(params.fields),
                          IF NonEmpty(params.fields) THEN params.fields[1] ELSE 0)
            /\ io.earliest # None
            /\ [b EXCEPT !.page = io.earliest[1].page] = io.earliest[1]

\* Flat iteration requests page 1 of an iterator that has a start bound and
\* fields but an empty query and an empty sort list.
C26_Witness ==
    /\ io.fn = "search"
    /\ io.op = "next"
    /\ io.pages = <<1>>
    /\ params.query = ""
    /\ params.sort = Some(<<>>)
    /\ params.start = Some(MinutesAgo(5))
    /\ params.fields = Some(<<"src.ip">>)
    /\ ~io.sent[1].sort.key
    /\ io.sent[1].fields.key
    /\ io.earliest[1].page = JsonVal(0)

\* ---- claims about collect() (SpecCollect)
\* The records the server holds from page p on, up to its last page.
RECURSIVE FromPage(_)
FromPage(p) ==
    IF p \notin DOMAIN script THEN <<>>
    ELSE Flows(p, script[p].len) \o (IF script[p].more THEN FromPage(p + 1) ELSE <<>>)

\* The records left from cursor c: the rest of the buffered page and the
\* pages after it, or everything when no page is buffered; at most as many
\* as the take() cap leaves.
Remaining(c) ==
    IF c.current_page = None THEN FromPage(0)
    ELSE SubSeq(c.current_page[1].flows, c.flow_index + 1,
                Len(c.current_page[1].flows))
         \o (IF c.current_page[1].has_more THEN FromPage(c.page_num) ELSE <<>>)
Left(c) == IF c.total_yielded >= c.limit[1] THEN 0 ELSE c.limit[1] - c.total_yielded
RemainingCapped(c) ==
    IF c.limit = None THEN Remaining(c)
    ELSE SubSeq(Remaining(c), 1, Min(Left(c), Len(Remaining(c))))
Collected == lastIt.op = "collect" /\ lastIt.err.type = "none"

\* C29: a collect() that returns, returns in order exactly the records left
\* from the cursor it was called at (all of them, or as many as the take()
\* cap leaves), and a collect() right after a collect() that returned
\* returns the empty list and requests nothing.
C29_CollectDrains ==
    [][(lastIt'.op = "collect" /\ lastIt'.err.type = "none") =>
        /\ lastIt'.ret = Some(RemainingCapped(Cursor))
        /\ Collected => (lastIt'.ret = Some(<<>>) /\ lastIt'.reqs = <<>>)]_vars

\* A collect() under a cap that fetched a page, returned records of two
\* pages and left a record of the last page behind.
C29_Witness ==
    /\ Collected
    /\ limit # None
    /\ Len(lastIt.ret[1]) = 2
    /\ lastIt.ret[1][1][1] # lastIt.ret[1][2][1]
    /\ lastIt.reqs # <<>>
    /\ flow_index < Len(current_page[1].flows)

\* ---- claims about the Q builder (SpecQuery)
\* A value as the query text shows it; a list as [v1, v2, ...].
RenderScalar(v) == IF v.kind = "int" THEN ToString(v.n) ELSE v.s
RECURSIVE CommaList(_)
CommaList(l) ==
    IF l = <<>> THEN ""
    ELSE RenderScalar(Head(l)) \o (IF Len(l) > 1 THEN ", " \o CommaList(Tail(l)) ELSE "")
RenderCondition(f, op, v) ==
    CASE v.kind = "none" -> f \o " " \o op
      [] v.kind = "list" -> f \o " " \o op \o " [" \o CommaList(v.items) \o "]"
      [] OTHER -> f \o " " \o op \o " " \o RenderScalar(v)

RECURSIVE SpaceJoined(_)
SpaceJoined(items) ==
    IF items = <<>> THEN ""
    ELSE Head(items) \o (IF Len(items) > 1 THEN " " \o SpaceJoined(Tail(items)) ELSE "")

\* The items and conjunctions of a sequence of calls, in call order: a
\* condition is a field (of Q(field), and_(field) or or_(field)) followed by
\* its operator call, a group is and_() or or_() followed by add_group.  A
\* sequence that does not alternate this way has the item Malformed.
Malformed == "?"
RECURSIVE ItemsOf(_, _)
ItemsOf(calls, field) ==
    IF field # None
    THEN IF calls # <<>> /\ calls[1].call = "op"
         THEN <<RenderCondition(field[1], calls[1].word, calls[1].arg)>>
              \o ItemsOf(Tail(calls), None)
         ELSE <<Malformed>>
    ELSE IF calls = <<>> THEN <<>>
    ELSE IF Len(calls) < 2 \/ calls[1].call # "conj" THEN <<Malformed>>
    ELSE IF calls[1].field # None /\ calls[2].call = "op"
    THEN <<calls[1].word, RenderCondition(calls[1].field[1], calls[2].word, calls[2].arg)>>
         \o ItemsOf(SubSeq(calls, 3, Len(calls)), None)
    ELSE IF calls[1].field = None /\ calls[2].call = "add_group"
    THEN <<calls[1].word,
           "(" \o SpaceJoined(ItemsOf(calls[2].inner[1].calls, calls[2].inner[1].field)) \o ")">>
         \o ItemsOf(SubSeq(calls, 3, Len(calls)), None)
    ELSE <<Malformed>>
ChainItems(ch) ==
    IF ch.group # None
    THEN <<"(" \o SpaceJoined(ItemsOf(ch.group[1].calls, ch.group[1].field)) \o ")">>
         \o ItemsOf(ch.calls, None)
    ELSE IF ch.field # None THEN ItemsOf(ch.calls, ch.field)
    ELSE <<Malformed>>
Alternates(ch) == \A i \in DOMAIN ChainItems(ch) : ChainItems(ch)[i] # Malformed
Example ==
    Chain(Some("dst.port"), None,
          <<OpCall("eq", IntArg(443)), ConjCall("and", Some("bytes")), OpCall("gt", IntArg(1000))>>)

\* C30: for every chain of calls that starts from a field or a group and
\* alternates conditions (or groups) and conjunctions, build() is the items
\* in call order joined by single spaces, each conjunction as chosen between
\* its neighbours: a condition as "field op value" ("field ex", "field nex",
\* a list as "[v1, v2, ...]"), a group as its inner query's text in
\* parentheses; the chain dst.port eq 443, and, bytes gt 1000 gives
\* "dst.port eq 443 and bytes gt 1000".
C30_BuildRendersChain ==
    (io.fn = "Q" /\ Alternates(io.chain)) =>
        /\ build(builder) = SpaceJoined(ChainItems(io.chain))
        /\ io.chain = Example => build(builder) = "dst.port eq 443 and bytes gt 1000"

\* A group, a conjunction and a condition with a list value.
C30_Witness ==
    /\ io.fn = "Q"
    /\ io.chain.group # None
    /\ Len(io.chain.calls) = 2
    /\ build(builder) = "(dst.port eq 443 or bytes gt 1000) and bytes in [tcp, 80]"

\* ---- claims about the builder's pending state (SpecQuery)
Conjunctions == {"and", "or"}
\* The step is an operator call that returned.
OperatorReturned == io'.last.call = "op" /\ io'.err.type = "none" /\ io'.chain # io.chain
\* The step is an operator call on a builder with no pending field.
OperatorWithoutField == io'.last.call = "op" /\ builder.pending_field = None
StartsWith(str, prefix) ==
    Len(str) >= Len(prefix) /\ SubSeq(str, 1, Len(prefix)) = prefix

\* C31: every operator call that returns has appended exactly one condition
\* token (after the conjunction, if one went in) and leaves the pending field
\* and the pending conjunction cleared, whatever the builder was before,
\* a builder with no tokens and a pending conjunction included.
C31_OperatorClearsPending ==
    [][OperatorReturned =>
        LET n == Len(builder.parts)
            m == Len(builder'.parts) IN
        /\ builder'.pending_field = None
        /\ builder'.pending_conjunction = None
        /\ m \in {n + 1, n + 2}
        /\ SubSeq(builder'.parts, 1, n) = builder.parts
        /\ builder'.parts[m] \notin Conjunctions
        /\ m = n + 2 => builder'.parts[n + 1] \in Conjunctions]_vars

\* C32: an operator call on a builder with no pending field raises a
\* ValueError whose message starts with "No field specified" and leaves the
\* tokens and the pending conjunction of the builder as they were.
C32_NoFieldRaises ==
    [][OperatorWithoutField =>
        /\ io'.err.type = "ValueError"
        /\ StartsWith(io'.err.message, "No field specified")
        /\ builder'.parts = builder.parts
        /\ builder'.pending_conjunction = builder.pending_conjunction
        /\ builder'.pending_field = None]_vars

\* An operator call refused on a builder that has tokens and a pending
\* conjunction, its last condition completed.
C32_Witness ==
    /\ io.fn = "Q"
    /\ io.err.type = "ValueError"
    /\ io.last.call = "op"
    /\ builder.parts # <<>>
    /\ builder.pending_conjunction # None
    /\ builder.pending_field = None

\* ---- claims about the deployment calls (SpecClient)
RequiredOf(fn) ==
    IF fn = "create" THEN {"name", "handle", "parent_id"} ELSE {"customer_id", "parent_id"}
SomeMissing(c) == \E f \in RequiredOf(c.fn) : c.args[f] = None \/ c.args[f] = Some("")

\* C33: create() with name, handle or parent_id missing, and delete() with
\* customer_id or parent_id missing, raise ValidationError with no
\* get_token() call, no token request and no request sent; with every
\* required argument given they go to the network.
C33_MissingFieldRejectedOffline ==
    (io # Idle /\ io.fn \in {"create", "delete"}) =>
        IF SomeMissing(io)
        THEN /\ io.err.type = "ValidationError"
             /\ io.token_calls = 0
             /\ io.token_requests = 0
             /\ io.sent = <<>>
        ELSE io.token_calls = 1

\* A create() refused for an empty handle while the token is due for a fetch.
C33_Witness ==
    /\ io # Idle
    /\ io.fn = "create"
    /\ io.args.name = Some("x")
    /\ io.args.handle = Some("")
    /\ io.err.type = "ValidationError"
    /\ token = None
    /\ io.sent = <<>>

\* ---- claims about the exhausted flag and interleaved consumption
\* C34: once _exhausted is true, no next_page() call and no flat-iteration
\* step issues a page request.
C34_ExhaustedSendsNothing ==
    [][(exhausted /\ lastIt'.op \in {"next_page", "next"}) => lastIt'.reqs = <<>>]_vars

\* ---- claims about the token state across downstream failures (SpecClient)
Downstream == {"first", "next_page", "create", "delete"}
\* The step is a call that sent its request and was answered with a status
\* that is not a success.
Rejected ==
    /\ io = Idle /\ io' # Idle
    /\ io'.fn \in Downstream
    /\ io'.sent # <<>>
    /\ CallRaised(io')
    /\ io'.err.type # "ConnectionError"
\* The step is a call that goes through _request.
Authenticated == io = Idle /\ io' # Idle /\ io'.fn \in Downstream /\ io'.token_calls = 1

\* C35: a search or deployment call answered with a non-success status (a
\* 401 included) leaves the token state as its get_token() left it: a token
\* request was made only if the cached token was due for refresh before the
\* call, and a token that was not due is still cached with its expiry.  Any
\* authenticated call made while the cached token is not due sends that
\* token and fetches none.
C35_RejectionKeepsToken ==
    [][/\ Rejected =>
            /\ io'.token_requests = (IF NeedsToken THEN 1 ELSE 0)
            /\ token' = io'.got
            /\ ~NeedsToken => (token' = token /\ expires_at' = expires_at)
       /\ (Authenticated /\ ~NeedsToken) =>
            /\ io'.token_requests = 0
            /\ io'.got = token
            /\ token' = token /\ expires_at' = expires_at]_vars

\* A next_page() answered 401 on a cached token, which is still cached.
C35_Witness ==
    /\ io # Idle
    /\ io.fn = "next_page"
    /\ io.err.type = "AuthenticationError"
    /\ io.sent # <<>>
    /\ io.token_requests = 0
    /\ token = io.got
    /\ token # None

\* ---- claims about a failed token fetch (Spec)
\* The step is a get_token() or refresh() whose token request was answered
\* with a status other than 200 or not answered at all.
FetchFailed ==
    /\ CallOf("get_token") \/ CallOf("refresh")
    /\ last'.fetches = 1
    /\ \/ last'.resp.kind = "transport"
       \/ last'.resp.kind = "http" /\ last'.resp.status # 200

\* C36: a get_token() or refresh() whose token request fails with a status
\* other than 200 or with a transport error raises AuthenticationError and
\* leaves the cached token and expiry exactly as they were.
C36_FailedFetchKeepsCache ==
    [][FetchFailed =>
        /\ token' = token
        /\ expires_at' = expires_at
        /\ Raised(last', "AuthenticationError")]_vars

\* A refresh() answered 401 with a token and expiry cached, both kept.
C36_Witness ==
    /\ last.op = "refresh"
    /\ last.fetches = 1
    /\ last.resp.status = 401
    /\ Raised(last, "AuthenticationError")
    /\ Cached(token, expires_at)

\* C37: whatever next_page() calls are made between the steps of flat
\* iteration, the records flat iteration has yielded are the records of
\* pages 0, 1, 2, ... in order from the start, none skipped and none twice:
\* a prefix of them at any time, and all of them once the sequence has ended
\* short of a take() cap.
C37_FlatYieldsContiguous ==
    /\ IsPrefix(yielded, FromPage(0))
    /\ (Ended(lastIt) /\ ~Capped(Cursor)) => yielded = FromPage(0)

\* C38: a flat-iteration step ends in one of three ways, a record, the end of
\* the sequence or an error, after at most one fetch per scripted page and one
\* beyond the script.  Every page it fetched before the last one was empty and
\* flagged more-available, and skipped without a yield: a record the step
\* returns after fetching is the first record of the last page fetched, and a
\* step that ends the sequence after fetching ends it at an empty final page.
Skipped(p) == ServerData(p).flows = <<>> /\ ServerData(p).more_data_available

StepFetched == IF lastIt.err.type \in {"none", "StopIteration"}
               THEN lastIt.reqs
               ELSE SubSeq(lastIt.reqs, 1, Len(lastIt.reqs) - 1)

C38_FlatStepTerminates ==
    lastIt.op = "next" =>
        /\ Len(lastIt.reqs) <= MaxPages + 1
        /\ (lastIt.ret # None) = (lastIt.err.type = "none")
        /\ \A i \in 1..(Len(StepFetched) - 1) : Skipped(StepFetched[i])
        /\ (lastIt.err.type \notin {"none", "StopIteration"})
               => \A i \in 1..Len(StepFetched) : Skipped(StepFetched[i])
        /\ (lastIt.err.type = "none" /\ lastIt.reqs # <<>>)
               => lastIt.ret[1] = <<lastIt.reqs[Len(lastIt.reqs)], 1>>
        /\ (lastIt.err.type = "StopIteration" /\ lastIt.reqs # <<>>)
               => LET d == ServerData(lastIt.reqs[Len(lastIt.reqs)])
                  IN  d.flows = <<>> /\ ~d.more_data_available

\* A step skipped an empty more-available page and went on to yield a record.
C38_Witness ==
    /\ lastIt.op = "next"
    /\ Len(lastIt.reqs) >= 2
    /\ Skipped(lastIt.reqs[1])
    /\ lastIt.ret # None

\* C39: the parts build() joins never begin or end with a conjunction, every
\* conjunction among them stands between two parts that are not conjunctions,
\* and so the text never begins with "and " or "or " nor ends with " and" or
\* " or"; an and_ or or_ with nothing after it is not in the text.
EndsWith(str, suffix) ==
    Len(str) >= Len(suffix)
    /\ SubSeq(str, Len(str) - Len(suffix) + 1, Len(str)) = suffix

IsConjunction(parts, i) == i \in DOMAIN parts /\ parts[i] \in Conjunctions

C39_NoDanglingConjunction ==
    io.fn = "Q" =>
        /\ ~IsConjunction(builder.parts, 1)
        /\ ~IsConjunction(builder.parts, Len(builder.parts))
        /\ \A i \in DOMAIN builder.parts :
              IsConjunction(builder.parts, i) =>
                  /\ i > 1 /\ ~IsConjunction(builder.parts, i - 1)
                  /\ i < Len(builder.parts) /\ ~IsConjunction(builder.parts, i + 1)
        /\ \A w \in Conjunctions :
              /\ build(builder) # w
              /\ ~StartsWith(build(builder), w \o " ")
              /\ ~EndsWith(build(builder), " " \o w)

\* and_ on an empty builder, a condition, then a trailing or_: neither
\* conjunction is in the text.
C39_Witness ==
    /\ io.fn = "Q"
    /\ io.chain.field = None /\ io.chain.group = None /\ io.chain.raw = None
    /\ Len(io.chain.calls) = 3
    /\ io.chain.calls[1].call = "conj"
    /\ io.chain.calls[2].call = "op"
    /\ io.chain.calls[3].call = "conj"
    /\ builder.pending_conjunction = Some("or")
    /\ Len(builder.parts) = 1

TypeOK ==
    /\ token \in {None} \cup {Some(t) : t \in Tokens}
    /\ expires_at \in {None} \cup {Some(x) : x \in ExpiryValues}
    /\ now \in 0..MaxTime
    /\ page_num \in Nat
    /\ flow_index \in Nat
====
